---------------------------- MODULE Spec2Model ----------------------------
(***************************************************************************)
(* The strategy backtesting engine of src/project/src/strategies/          *)
(* indicators.ts: the four indicators, WeightedStrategy.analyze and the    *)
(* asynchronous WeightedStrategy.backtest with pause(), resume() and the   *)
(* observer's progress callback.                                           *)
(*                                                                         *)
(* Numbers.  The code computes in IEEE doubles.  The model computes over   *)
(* the exact reals: money, sizes, RSI and ratios are normalised fractions  *)
(* <<n, d>> (d > 0; <<0, 0>> is NaN and <<1, 0>> is +Infinity); the EMAs   *)
(* are enclosed in intervals of fixed-point numbers whose sign decides the *)
(* MACD signal (MacdDecided states that every enclosure met does decide).  *)
(* A candle row is either null (ok = FALSE: reading its close throws) or   *)
(* carries an integer close and volume, on which parseFloat is the         *)
(* identity, and a numeric timestamp.  Weights, signals and thresholds are *)
(* counted in hundredths (0.3 is 30); the thresholds used are ones at      *)
(* which the double sum of the weights compares as the exact sum does.     *)
(* RSI periods are >= 1.                                                   *)
(*                                                                         *)
(* Indices.  i is the code's 0-based candle index; data[i] of the code is  *)
(* data[i + 1] here.                                                       *)
(***************************************************************************)
EXTENDS Integers, Sequences, FiniteSets, TLC

(***************************************************************************)
(* Exact arithmetic                                                        *)
(***************************************************************************)
Abs(x) == IF x < 0 THEN -x ELSE x

Max(a, b) == IF a >= b THEN a ELSE b

Min(a, b) == IF a <= b THEN a ELSE b

RECURSIVE GCD(_, _)
GCD(a, b) == IF b = 0 THEN a ELSE GCD(b, a % b)

\* the fraction n/d in lowest terms, d # 0
Frac(n, d) ==
  LET s == IF d < 0 THEN -1 ELSE 1
      g == GCD(Abs(n), Abs(d))
  IN  <<(s * n) \div g, (s * d) \div g>>

NaN == <<0, 0>>

Infinity == <<1, 0>>

IsFinite(x) == x[2] > 0

FromInt(k) == <<k, 1>>

RAdd(x, y) ==
  LET g == GCD(x[2], y[2])
  IN  Frac(x[1] * (y[2] \div g) + y[1] * (x[2] \div g), (x[2] \div g) * y[2])

RNeg(x) == <<-x[1], x[2]>>

RSub(x, y) == RAdd(x, RNeg(y))

RMul(x, y) ==
  LET a == Frac(x[1], y[2])
      b == Frac(y[1], x[2])
  IN  <<a[1] * b[1], a[2] * b[2]>>

\* x / y for finite x and finite y # 0
RDiv(x, y) == RMul(x, Frac(y[2], y[1]))

\* x < y on finite fractions
RLess(x, y) ==
  LET g == GCD(x[2], y[2])
  IN  x[1] * (y[2] \div g) < y[1] * (x[2] \div g)

RMax(x, y) == IF RLess(x, y) THEN y ELSE x

CeilDiv(a, b) == -((-a) \div b)

(***************************************************************************)
(* Array helpers                                                           *)
(***************************************************************************)
\* sum of s[lo..hi] (1-based, empty when lo > hi), the reduce((a, b) => a + b, 0) of
\* a slice; the sums are of integers, so the halves may be added in any grouping
RECURSIVE SumRange(_, _, _)
SumRange(s, lo, hi) ==
  IF lo > hi THEN 0
  ELSE IF lo = hi THEN s[lo]
  ELSE SumRange(s, lo, (lo + hi) \div 2) + SumRange(s, (lo + hi) \div 2 + 1, hi)

RECURSIVE SumSqRange(_, _, _)
SumSqRange(s, lo, hi) ==
  IF lo > hi THEN 0
  ELSE IF lo = hi THEN s[lo] * s[lo]
  ELSE SumSqRange(s, lo, (lo + hi) \div 2) + SumSqRange(s, (lo + hi) \div 2 + 1, hi)

\* first index (1-based) of arr.slice(-k)
SliceFrom(s, k) == Max(1, Len(s) - k + 1)

(***************************************************************************)
(* Indicator library                                                       *)
(***************************************************************************)
RsiWeight == 30

MacdWeight == 25

BollingerWeight == 25

VolumeWeight == 20

\* sums of the gains and of the losses among the last `period` price changes
RECURSIVE GainSum(_, _, _)
GainSum(prices, lo, hi) ==
  IF lo > hi THEN 0
  ELSE IF lo = hi THEN Max(prices[lo] - prices[lo - 1], 0)
  ELSE GainSum(prices, lo, (lo + hi) \div 2)
         + GainSum(prices, (lo + hi) \div 2 + 1, hi)

RECURSIVE LossSum(_, _, _)
LossSum(prices, lo, hi) ==
  IF lo > hi THEN 0
  ELSE IF lo = hi THEN Max(prices[lo - 1] - prices[lo], 0)
  ELSE LossSum(prices, lo, (lo + hi) \div 2)
         + LossSum(prices, (lo + hi) \div 2 + 1, hi)

\* a faulty RSI without the guard of avgLoss = 0: 0 / 0 is NaN
calculateSimpleRSIUnguarded(prices, period) ==
  LET n  == Len(prices)
      lo == Max(2, n - period + 1)
      G  == GainSum(prices, lo, n)
      L  == LossSum(prices, lo, n)
  IN  IF n < 2 \/ period < 1 THEN NaN
      ELSE IF G + L = 0 THEN NaN
      ELSE Frac(100 * G, G + L)

\* 100 - 100 / (1 + avgGain / avgLoss) = 100 * G / (G + L); 100 when avgLoss = 0;
\* NaN when there is no price change to average
calculateSimpleRSI(prices, period) ==
  LET n  == Len(prices)
      lo == Max(2, n - period + 1)
      G  == GainSum(prices, lo, n)
      L  == LossSum(prices, lo, n)
  IN  IF n < 2 \/ period < 1 THEN NaN
      ELSE IF L = 0 THEN FromInt(100)
      ELSE Frac(100 * G, G + L)

RsiSignal(v) ==
  IF ~IsFinite(v) THEN "neutral"
  ELSE IF RLess(FromInt(70), v) THEN "sell"
  ELSE IF RLess(v, FromInt(30)) THEN "buy"
  ELSE "neutral"

RsiResult(rsiValue) ==
  [value |-> rsiValue, signal |-> RsiSignal(rsiValue), weight |-> RsiWeight]

calculateRSI(prices, period) == RsiResult(calculateSimpleRSI(prices, period))

\* fixed-point unit of the EMA enclosures
EMAScale == 100000

\* a / b rounded down (up = FALSE) or up (up = TRUE), b > 0
RoundDiv(a, b, up) == IF up THEN CeilDiv(a, b) ELSE a \div b

\* one update of the loop, on a bound (lower, or upper when up) of the EMA:
\* (p - ema) * 2 / (period + 1) + ema = ((period - 1) * ema + 2p) / (period + 1)
EMAUpdate(ema, price, period, up) ==
  RoundDiv((period - 1) * ema + 2 * price * EMAScale, period + 1, up)

\* the updates for the prices of indices lo..hi (1-based) in their order, from the
\* bound `ema` before them: the first half of the updates gives `half`, the second
\* half goes on from it
RECURSIVE EMAFold(_, _, _, _, _, _)
EMAFold(prices, period, ema, lo, hi, up) ==
  IF lo > hi THEN ema
  ELSE IF lo = hi THEN EMAUpdate(ema, prices[lo], period, up)
  ELSE CHOOSE after \in
         {EMAFold(prices, period, half, (lo + hi) \div 2 + 1, hi, up) :
            half \in {EMAFold(prices, period, ema, lo, (lo + hi) \div 2, up)}} : TRUE

\* the seed: average(prices.slice(0, period))
EMASeed(prices, period, up) ==
  RoundDiv(SumRange(prices, 1, Min(period, Len(prices))) * EMAScale,
           Min(period, Len(prices)), up)

EMABound(prices, period, up) ==
  EMAFold(prices, period, EMASeed(prices, period, up), period + 1, Len(prices), up)

calculateEMA(prices, period) ==
  [lo |-> EMABound(prices, period, FALSE), hi |-> EMABound(prices, period, TRUE)]

\* ema12 - ema26 on enclosures
EnclosureDiff(x, y) == [lo |-> x.lo - y.hi, hi |-> x.hi - y.lo]

calculateSimpleMACD(prices) ==
  EnclosureDiff(calculateEMA(prices, 12), calculateEMA(prices, 26))

\* the enclosure decides the sign: it lies on one side of 0, or is exactly 0
MacdExact(v) == v.lo > 0 \/ v.hi < 0 \/ (v.lo = 0 /\ v.hi = 0)

\* a faulty MACD signal: the directions are exchanged
MacdSignalInverted(v) ==
  IF v.lo > 0 THEN "sell" ELSE IF v.hi < 0 THEN "buy" ELSE "neutral"

MacdSignal(v) == IF v.lo > 0 THEN "buy" ELSE IF v.hi < 0 THEN "sell" ELSE "neutral"

MacdResult(macdValue) ==
  [value |-> macdValue, signal |-> MacdSignal(macdValue), weight |-> MacdWeight]

calculateMACD(prices) == MacdResult(calculateSimpleMACD(prices))

\* currentPrice > sma + 2 * stdDev and currentPrice < sma - 2 * stdDev over the last
\* 20 prices (population deviation), decided without the square root:
\* with k prices of sum S and square sum Q, sma = S/k and stdDev^2 = (kQ - S^2)/k^2
calculateBollingerBands(prices) ==
  LET n   == Len(prices)
      lo  == SliceFrom(prices, 20)
      k   == n - lo + 1
      S   == SumRange(prices, lo, n)
      Q   == SumSqRange(prices, lo, n)
      dev == k * prices[n] - S
      far == dev * dev > 4 * (k * Q - S * S)
  IN  [value |-> FromInt(prices[n]),
       signal |-> IF dev > 0 /\ far THEN "sell"
                  ELSE IF dev < 0 /\ far THEN "buy"
                  ELSE "neutral",
       weight |-> BollingerWeight]

\* a faulty volume ratio: the history is the last 20 volumes, the recent 5 included
analyzeVolumeOverlapping(volumes) ==
  LET n   == Len(volumes)
      rlo == SliceFrom(volumes, 5)
      hlo == SliceFrom(volumes, 20)
      R   == SumRange(volumes, rlo, n)
      H   == SumRange(volumes, hlo, n)
  IN  IF H = 0 THEN NaN ELSE Frac(R * (n - hlo + 1), (n - rlo + 1) * H)

\* average(volumes.slice(-5)) / average(volumes.slice(-20, -5))
analyzeVolume(volumes) ==
  LET n     == Len(volumes)
      rlo   == SliceFrom(volumes, 5)
      a     == n - rlo + 1
      hlo   == SliceFrom(volumes, 20)
      hhi   == n - 5
      b     == Max(0, hhi - hlo + 1)
      R     == SumRange(volumes, rlo, n)
      H     == SumRange(volumes, hlo, hhi)
  IN  IF b = 0 THEN NaN
      ELSE IF H = 0 THEN (IF R > 0 THEN Infinity ELSE NaN)
      ELSE Frac(R * b, a * H)

VolumeSignalOf(v) ==
  IF v = NaN THEN "neutral"
  ELSE IF v = Infinity THEN "buy"
  ELSE IF RLess(<<3, 2>>, v) THEN "buy"
  ELSE IF RLess(v, <<1, 2>>) THEN "sell"
  ELSE "neutral"

VolumeResult(volumeSignal) ==
  [value |-> volumeSignal, signal |-> VolumeSignalOf(volumeSignal),
   weight |-> VolumeWeight]

calculateVolumeSignal(volumes) == VolumeResult(analyzeVolume(volumes))

(***************************************************************************)
(* Signal aggregator: WeightedStrategy.analyze                             *)
(***************************************************************************)
\* a faulty direction: a sell counts like a buy
SignalValueUnsigned(signal) == IF signal = "neutral" THEN 0 ELSE 1

\* signals and thresholds are counted in hundredths: 0.3 is 30
SignalValue(signal) == IF signal = "buy" THEN 1 ELSE IF signal = "sell" THEN -1 ELSE 0

\* a faulty aggregation: a signal equal to the threshold is recommended as a trade
AggregateLoose(rsi, macd, bollinger, volume, threshold) ==
  LET totalSignal == SignalValue(rsi.signal) * rsi.weight
                     + SignalValue(macd.signal) * macd.weight
                     + SignalValue(bollinger.signal) * bollinger.weight
                     + SignalValue(volume.signal) * volume.weight
  IN  [totalSignal |-> totalSignal,
       recommendation |-> IF totalSignal >= threshold THEN "buy"
                          ELSE IF totalSignal <= -threshold THEN "sell"
                          ELSE "neutral",
       indicators |-> [rsi |-> rsi, macd |-> macd, bollinger |-> bollinger,
                       volume |-> volume]]

\* the weighted sum of the four directions and the recommendation it gives
Aggregate(rsi, macd, bollinger, volume, threshold) ==
  LET totalSignal == SignalValue(rsi.signal) * rsi.weight
                     + SignalValue(macd.signal) * macd.weight
                     + SignalValue(bollinger.signal) * bollinger.weight
                     + SignalValue(volume.signal) * volume.weight
  IN  [totalSignal |-> totalSignal,
       recommendation |-> IF totalSignal > threshold THEN "buy"
                          ELSE IF totalSignal < -threshold THEN "sell"
                          ELSE "neutral",
       indicators |-> [rsi |-> rsi, macd |-> macd, bollinger |-> bollinger,
                       volume |-> volume]]

analyze(prices, volumes, period, threshold) ==
  Aggregate(calculateRSI(prices, period), calculateMACD(prices),
            calculateBollingerBands(prices), calculateVolumeSignal(volumes), threshold)

(***************************************************************************)
(* Backtest engine: one candle                                             *)
(***************************************************************************)
\* the fraction of the capital a position is sized at: 0.95
SizingNum == 19

SizingDen == 20

NoAnalysis == [rsi |-> NaN, macd |-> [lo |-> 0, hi |-> 0], bollingerPosition |-> NaN,
               volumeSignal |-> NaN, totalSignal |-> 0, present |-> FALSE]

\* a faulty window: the whole series instead of the prefix
WindowWhole(rows, idx) == [k \in 1..Len(rows) |-> rows[k].close]

\* data.slice(0, i + 1).map(d => parseFloat(d.close)) and the same of the volumes
WindowPrices(rows, idx) == [k \in 1..(idx + 1) |-> rows[k].close]

WindowVolumes(rows, idx) == [k \in 1..(idx + 1) |-> rows[k].volume]

\* reading d.close of a null row throws
WindowThrows(rows, idx) == \E k \in 1..(idx + 1) : ~rows[k].ok

LastAnalysis(result) ==
  [rsi |-> result.indicators.rsi.value,
   macd |-> result.indicators.macd.value,
   bollingerPosition |-> result.indicators.bollinger.value,
   volumeSignal |-> result.indicators.volume.value,
   totalSignal |-> result.totalSignal,
   present |-> TRUE]

\* a faulty buy branch: the trade is recorded but the position is left as it was
OpenLongStaysFlat(st, candle, lastAnalysis, size) ==
  [st EXCEPT !.positionSize = size,
             !.entryPrice = candle.close,
             !.trades = Append(@, [timestamp |-> candle.timestamp, type |-> "buy",
                                   price |-> candle.close, size |-> size,
                                   hasProfit |-> FALSE, profit |-> NaN,
                                   indicators |-> lastAnalysis])]

\* a faulty buy branch: the whole capital is put into the position
OpenLongAllIn(st, candle, lastAnalysis, size) ==
  [st EXCEPT !.positionSize = RDiv(st.currentCapital, FromInt(candle.close)),
             !.position = "long",
             !.entryPrice = candle.close,
             !.trades = Append(@, [timestamp |-> candle.timestamp, type |-> "buy",
                                   price |-> candle.close,
                                   size |-> RDiv(st.currentCapital,
                                                 FromInt(candle.close)),
                                   hasProfit |-> FALSE, profit |-> NaN,
                                   indicators |-> lastAnalysis])]

\* a faulty buy branch: the position is four times the capital
OpenLongMargin(st, candle, lastAnalysis, size) ==
  [st EXCEPT !.positionSize = RDiv(RMul(st.currentCapital, FromInt(4)),
                                   FromInt(candle.close)),
             !.position = "long",
             !.entryPrice = candle.close,
             !.trades = Append(@, [timestamp |-> candle.timestamp, type |-> "buy",
                                   price |-> candle.close,
                                   size |-> RDiv(RMul(st.currentCapital, FromInt(4)),
                                                 FromInt(candle.close)),
                                   hasProfit |-> FALSE, profit |-> NaN,
                                   indicators |-> lastAnalysis])]

\* the buy branch: size the position at 95% of the capital and record the trade
OpenLong(st, candle, lastAnalysis, size) ==
  [st EXCEPT !.positionSize = size,
             !.position = "long",
             !.entryPrice = candle.close,
             !.trades = Append(@, [timestamp |-> candle.timestamp, type |-> "buy",
                                   price |-> candle.close, size |-> size,
                                   hasProfit |-> FALSE, profit |-> NaN,
                                   indicators |-> lastAnalysis])]

\* a faulty sell branch: every closed trade is counted as a winning one
CloseLongAlwaysWins(st, candle, lastAnalysis, profit, capital, peak) ==
  [st EXCEPT !.currentCapital = capital,
             !.winningTrades = @ + 1,
             !.trades = Append(@, [timestamp |-> candle.timestamp, type |-> "sell",
                                   price |-> candle.close, size |-> st.positionSize,
                                   hasProfit |-> TRUE, profit |-> profit,
                                   indicators |-> lastAnalysis]),
             !.position = "none",
             !.positionSize = FromInt(0),
             !.maxCapital = peak,
             !.maxDrawdown = RMax(@, RDiv(RSub(peak, capital), peak))]

\* the sell branch: realise the profit, count the trade, record it, update the
\* peak and the drawdown
CloseLong(st, candle, lastAnalysis, profit, capital, peak) ==
  [st EXCEPT !.currentCapital = capital,
             !.winningTrades = IF RLess(FromInt(0), profit) THEN @ + 1 ELSE @,
             !.losingTrades = IF RLess(FromInt(0), profit) THEN @ ELSE @ + 1,
             !.trades = Append(@, [timestamp |-> candle.timestamp, type |-> "sell",
                                   price |-> candle.close, size |-> st.positionSize,
                                   hasProfit |-> TRUE, profit |-> profit,
                                   indicators |-> lastAnalysis]),
             !.position = "none",
             !.positionSize = FromInt(0),
             !.maxCapital = peak,
             !.maxDrawdown = RMax(@, RDiv(RSub(peak, capital), peak))]

\* a faulty profit: the price difference of one unit, the size forgotten
ProfitPerUnit(st, candle) == FromInt(candle.close - st.entryPrice)

\* (exitPrice - this.entryPrice) * this.positionSize
Profit(st, candle) == RMul(FromInt(candle.close - st.entryPrice), st.positionSize)

\* a faulty sell branch: the profit is recorded but not added to the capital
ClosedKeepsCapital(st, candle, lastAnalysis, profit, capital) ==
  CloseLong(st, candle, lastAnalysis, profit, st.currentCapital, st.maxCapital)

\* a faulty sell branch: the peak is never raised
ClosedPeakStale(st, candle, lastAnalysis, profit, capital) ==
  CloseLong(st, candle, lastAnalysis, profit, capital, st.maxCapital)

Closed(st, candle, lastAnalysis, profit, capital) ==
  CloseLong(st, candle, lastAnalysis, profit, capital, RMax(st.maxCapital, capital))

\* a faulty trading logic: a signal equal to the threshold opens a position
TradeAtThreshold(st, candle, totalSignal, lastAnalysis, threshold) ==
  IF st.position = "none"
  THEN IF totalSignal >= threshold
       THEN OpenLong(st, candle, lastAnalysis,
                     RDiv(RMul(st.currentCapital, <<SizingNum, SizingDen>>),
                          FromInt(candle.close)))
       ELSE st
  ELSE IF st.position = "long" /\ totalSignal < -threshold
       THEN Closed(st, candle, lastAnalysis, Profit(st, candle),
                   RAdd(st.currentCapital, Profit(st, candle)))
       ELSE st

\* the trading logic of one candle
Trade(st, candle, totalSignal, lastAnalysis, threshold) ==
  IF st.position = "none"
  THEN IF totalSignal > threshold
       THEN OpenLong(st, candle, lastAnalysis,
                     RDiv(RMul(st.currentCapital, <<SizingNum, SizingDen>>),
                          FromInt(candle.close)))
       ELSE st
  ELSE IF st.position = "long" /\ totalSignal < -threshold
       THEN Closed(st, candle, lastAnalysis, Profit(st, candle),
                   RAdd(st.currentCapital, Profit(st, candle)))
       ELSE st

\* a faulty curve: the last entry is overwritten with the capital, nothing appended
PushedOverwrites(after, lastAnalysis) ==
  [after EXCEPT !.equity = [@ EXCEPT ![Len(@)] = after.currentCapital],
                !.lastAnalysis = lastAnalysis]

\* equity.push(currentCapital), and the analysis kept for the progress report
Pushed(after, lastAnalysis) ==
  [after EXCEPT !.equity = Append(@, after.currentCapital),
                !.lastAnalysis = lastAnalysis]

Traded(st, candle, result, threshold) ==
  Pushed(Trade(st, candle, result.totalSignal, LastAnalysis(result), threshold),
         LastAnalysis(result))

\* the run's locals and the instance's position fields after the trading logic and
\* equity.push of candle idx, from their values st before it
processCandle(st, rows, idx, period, threshold) ==
  Traded(st, rows[idx + 1],
         analyze(WindowPrices(rows, idx), WindowVolumes(rows, idx), period, threshold),
         threshold)

(***************************************************************************)
(* Result reporter: the summary backtest() returns                         *)
(***************************************************************************)
\* x / y as the doubles divide: a zero divisor gives NaN or an infinity
RQuot(x, y) ==
  IF ~IsFinite(x) \/ ~IsFinite(y) THEN NaN
  ELSE IF y[1] = 0 THEN (IF x[1] = 0 THEN NaN ELSE Infinity)
  ELSE RDiv(x, y)

\* equity.map((val, i) => i === 0 ? 0 : (val - equity[i - 1]) / equity[i - 1])
Returns(eq) ==
  [k \in 1..Len(eq) |->
     IF k = 1 THEN FromInt(0) ELSE RQuot(RSub(eq[k], eq[k - 1]), eq[k - 1])]

\* a faulty ratio without the guard of stdDev === 0
SharpeRatioUnguarded(eq) == [isZero |-> FALSE, returns |-> Returns(eq)]

\* stdDev === 0 exactly when all returns are equal; otherwise the ratio is the
\* annualised mean / stdDev of `returns`, kept here by its argument
SharpeRatio(eq) ==
  LET returns == Returns(eq)
  IN  IF \A k \in 1..Len(returns) : returns[k] = returns[1]
      THEN [isZero |-> TRUE, returns |-> <<>>]
      ELSE [isZero |-> FALSE, returns |-> returns]

\* a faulty summary that consumes the curve it reads (equity.shift()): the curve
\* it returns has lost its first entry
SummaryConsumesCurve(st, capital0) ==
  [kind |-> "result",
   totalTrades |-> st.winningTrades + st.losingTrades,
   winningTrades |-> st.winningTrades,
   losingTrades |-> st.losingTrades,
   winRate |-> IF st.winningTrades + st.losingTrades > 0
               THEN Frac(st.winningTrades * 100, st.winningTrades + st.losingTrades)
               ELSE FromInt(0),
   profit |-> RSub(st.currentCapital, capital0),
   maxDrawdown |-> RMul(st.maxDrawdown, FromInt(100)),
   sharpeRatio |-> SharpeRatio(st.equity),
   trades |-> st.trades,
   equity |-> SubSeq(st.equity, 2, Len(st.equity))]

\* a faulty summary: a position still open is counted as a trade
SummaryCountsOpen(st, capital0) ==
  [kind |-> "result",
   totalTrades |-> st.winningTrades + st.losingTrades
                     + (IF st.position = "long" THEN 1 ELSE 0),
   winningTrades |-> st.winningTrades,
   losingTrades |-> st.losingTrades,
   winRate |-> IF st.winningTrades + st.losingTrades > 0
               THEN Frac(st.winningTrades * 100, st.winningTrades + st.losingTrades)
               ELSE FromInt(0),
   profit |-> RSub(st.currentCapital, capital0),
   maxDrawdown |-> RMul(st.maxDrawdown, FromInt(100)),
   sharpeRatio |-> SharpeRatio(st.equity),
   trades |-> st.trades,
   equity |-> st.equity]

Summary(st, capital0) ==
  LET totalTrades == st.winningTrades + st.losingTrades
  IN  [kind |-> "result",
       totalTrades |-> totalTrades,
       winningTrades |-> st.winningTrades,
       losingTrades |-> st.losingTrades,
       winRate |-> IF totalTrades > 0 THEN Frac(st.winningTrades * 100, totalTrades)
                   ELSE FromInt(0),
       profit |-> RSub(st.currentCapital, capital0),
       maxDrawdown |-> RMul(st.maxDrawdown, FromInt(100)),
       sharpeRatio |-> SharpeRatio(st.equity),
       trades |-> st.trades,
       equity |-> st.equity]

(***************************************************************************)
(* Inputs of the model                                                     *)
(***************************************************************************)
MaxTail == 3

MaxRuns == 2

MaxPauses == 1

MaxThrows == 1

\* new WeightedStrategy(rsiPeriod, signalThreshold): the warm-up is 26 candles with
\* the default period 14 and 100 candles with period 99
Configs == {<<14, 25>>, <<14, 20>>, <<99, 25>>}

Capitals == {1000}

BaseClose == 10

BaseVolume == 1

\* a candle row as <<close, volume>>; <<0, 0>> stands for a null row
TailCandles == {<<8, 1>>, <<10, 1>>, <<12, 1>>, <<8, 4>>, <<0, 0>>}

LongTailCandles == {<<8, 1>>, <<12, 1>>}

Row(cv, idx) ==
  [ok |-> cv # <<0, 0>>, close |-> cv[1], volume |-> cv[2], timestamp |-> idx]

\* n flat candles followed by `tail`, stamped with their 0-based index
Series(n, tail) ==
  [k \in 1..(n + Len(tail)) |->
     Row(IF k <= n THEN <<BaseClose, BaseVolume>> ELSE tail[k - n], k - 1)]

Tails(cands, lens) == UNION {[1..m -> cands] : m \in lens}

ShortLen == 26

LongLen == 100

\* tails whose round trips do not win: back to the entry price (and in again), and
\* below it
RoundTripTails ==
  {<<<<8, 1>>, <<6, 1>>, <<8, 1>>>>,
   <<<<8, 1>>, <<6, 1>>, <<8, 1>>, <<6, 1>>>>,
   <<<<6, 1>>, <<12, 1>>, <<12, 1>>, <<8, 1>>>>}

\* a fall from 120 to 100 and a rise to 110 after the flat warm-up
ScenarioTail == <<<<100, 1>>, <<110, 1>>>>

ScenarioSeries ==
  [k \in 1..(ShortLen + Len(ScenarioTail)) |->
     Row(IF k <= ShortLen THEN <<120, 1>> ELSE ScenarioTail[k - ShortLen], k - 1)]

\* the candle data a call may pass: short series for every instance (no candle is
\* past the warm-up of period 99), long ones for period 99, the fall-and-rise series
\* and the degenerate ones
Arguments(period) ==
  {[kind |-> "array", rows |-> ScenarioSeries]} \cup
  {[kind |-> "array", rows |-> Series(ShortLen, t)] : t \in RoundTripTails} \cup
  {[kind |-> "array", rows |-> Series(ShortLen, t)] : t \in Tails(TailCandles, 0..MaxTail)}
  \cup (IF period + 1 >= LongLen
        THEN {[kind |-> "array", rows |-> Series(LongLen, t)] :
                t \in Tails(LongTailCandles, 1..MaxTail)}
        ELSE {})
  \cup {[kind |-> "array", rows |-> Series(n, <<>>)] : n \in {0, 5}}
  \cup {[kind |-> "object", rows |-> <<>>], [kind |-> "nullish", rows |-> <<>>]}

(***************************************************************************)
(* State                                                                   *)
(***************************************************************************)
VARIABLES
  rsiPeriod, signalThreshold,           \* constructor arguments
  position, entryPrice, positionSize,   \* instance fields
  isPaused,
  pc,                  \* where the backtest() call stands
  data, initialCapital, onProgress,     \* its arguments
  i, trades, equity, currentCapital, maxCapital, maxDrawdown,
  winningTrades, losingTrades, lastAnalysis,   \* its locals
  outcome,             \* what the returned promise settled with
  event,               \* what the last action did: snapshot delivered, error caught
  runNo, pauseCalls, throwCount,        \* counters of the bounds
  start,               \* the position fields the current run started from
  processed,           \* the candles the current run took to their equity entry
  pausedSince,         \* the run suspended and resume() was not called since
  order,               \* the arguments of the TradingService.placeOrder call
  stage,               \* where that call stands
  requests,            \* the requests it sent to the exchange, with their outcome
  reply,               \* the OrderResponse it resolved to
  lastRequest,         \* the last request BinanceAPI.makeRequest built
  historicalData,      \* the dataset the HistoricalDataManager holds
  delivered,           \* the datasets it passed to onDataFetched, in order
  job,                 \* what the manager is doing
  currentStart, endTime, allData,   \* the locals of fetchHistoricalData
  batches,             \* the batches it requested, with what the exchange returned
  upload               \* the file handleFileUpload handled last

instance == <<rsiPeriod, signalThreshold, position, entryPrice, positionSize>>

args == <<data, initialCapital, onProgress>>

locals == <<trades, equity, currentCapital, maxCapital, maxDrawdown,
            winningTrades, losingTrades, lastAnalysis>>

ghost == <<runNo, start, processed>>

trading == <<order, stage, requests, reply>>

manager == <<historicalData, delivered, job, currentStart, endTime, allData, batches,
            upload>>

vars == <<instance, isPaused, pc, args, i, locals, outcome, event,
          pauseCalls, throwCount, ghost, pausedSince, trading, lastRequest, manager>>

NoOutcome == [kind |-> "none"]

NoSnapshot == [currentCandle |-> -1, totalCandles |-> -1, trades |-> <<>>,
               equity |-> <<>>, initialCapital |-> FromInt(0),
               currentCapital |-> FromInt(0), isPaused |-> FALSE,
               lastAnalysis |-> NoAnalysis]

Event(act, emitted, snapshot, caught) ==
  [act |-> act, emitted |-> emitted, snapshot |-> snapshot, caught |-> caught]

Quiet(act) == Event(act, FALSE, NoSnapshot, FALSE)

rows == data.rows

\* Math.max(this.rsiPeriod + 1, 26)
MacdPeriod == 26

minCandles == Max(rsiPeriod + 1, MacdPeriod)

\* no placeOrder call was made
NoOrder == [kind |-> "none"]

NoReply == [kind |-> "pending"]

\* no request was built, and the manager holds nothing and does nothing
NoRequest == [kind |-> "none"]

\* no file was chosen yet
NoFile == [name |-> "none"]

ManagerIdle ==
  /\ lastRequest = NoRequest
  /\ historicalData = <<>>
  /\ delivered = <<>>
  /\ job = "idle"
  /\ currentStart = 0
  /\ endTime = 0
  /\ allData = <<>>
  /\ batches = <<>>
  /\ upload = NoFile

NoCall ==
  /\ order = NoOrder
  /\ stage = "idle"
  /\ requests = <<>>
  /\ reply = NoReply

\* the locals and position fields as processCandle takes them
St ==
  [position |-> position, entryPrice |-> entryPrice, positionSize |-> positionSize,
   trades |-> trades, equity |-> equity, currentCapital |-> currentCapital,
   maxCapital |-> maxCapital, maxDrawdown |-> maxDrawdown,
   winningTrades |-> winningTrades, losingTrades |-> losingTrades,
   lastAnalysis |-> lastAnalysis]

SetSt(st) ==
  /\ position' = st.position
  /\ entryPrice' = st.entryPrice
  /\ positionSize' = st.positionSize
  /\ trades' = st.trades
  /\ equity' = st.equity
  /\ currentCapital' = st.currentCapital
  /\ maxCapital' = st.maxCapital
  /\ maxDrawdown' = st.maxDrawdown
  /\ winningTrades' = st.winningTrades
  /\ losingTrades' = st.losingTrades
  /\ lastAnalysis' = st.lastAnalysis

Init ==
  /\ \E c \in Configs : rsiPeriod = c[1] /\ signalThreshold = c[2]
  /\ position = "none"
  /\ entryPrice = 0
  /\ positionSize = FromInt(0)
  /\ isPaused = FALSE
  /\ pc = "idle"
  /\ data = [kind |-> "array", rows |-> <<>>]
  /\ initialCapital = FromInt(0)
  /\ onProgress = FALSE
  /\ i = 0
  /\ trades = <<>>
  /\ equity = <<>>
  /\ currentCapital = FromInt(0)
  /\ maxCapital = FromInt(0)
  /\ maxDrawdown = FromInt(0)
  /\ winningTrades = 0
  /\ losingTrades = 0
  /\ lastAnalysis = NoAnalysis
  /\ outcome = NoOutcome
  /\ event = Quiet("new")
  /\ runNo = 0
  /\ pauseCalls = 0
  /\ throwCount = 0
  /\ start = [position |-> "none", entryPrice |-> 0, positionSize |-> FromInt(0)]
  /\ processed = 0
  /\ pausedSince = FALSE
  /\ NoCall
  /\ ManagerIdle

(***************************************************************************)
(* pause() and resume(), called by the caller while the run awaits a timer *)
(* (or while no run is under way)                                          *)
(***************************************************************************)
Awaiting == pc \in {"idle", "sleeping", "yielded", "done", "failed"}

pause ==
  /\ Awaiting
  /\ pauseCalls < MaxPauses
  /\ isPaused' = TRUE
  /\ pauseCalls' = pauseCalls + 1
  /\ event' = Quiet("pause")
  /\ UNCHANGED <<trading, lastRequest, manager>>
  /\ UNCHANGED <<instance, pc, args, i, locals, outcome, throwCount, ghost,
                 pausedSince>>

resume ==
  /\ Awaiting
  /\ isPaused' = FALSE
  /\ pausedSince' = FALSE
  /\ event' = Quiet("resume")
  /\ UNCHANGED <<trading, lastRequest, manager>>
  /\ UNCHANGED <<instance, pc, args, i, locals, outcome, pauseCalls, throwCount,
                 ghost>>

(***************************************************************************)
(* The observer: what a call of onProgress does                            *)
(***************************************************************************)
Reactions ==
  {"return", "resume"}
  \cup (IF throwCount < MaxThrows THEN {"throw"} ELSE {})
  \cup (IF pauseCalls < MaxPauses THEN {"pause"} ELSE {})

\* the pause flag after the callback
FlagAfter(r) == IF r = "pause" THEN TRUE ELSE IF r = "resume" THEN FALSE ELSE isPaused

Observed(r) ==
  /\ pauseCalls' = IF r = "pause" THEN pauseCalls + 1 ELSE pauseCalls
  /\ throwCount' = IF r = "throw" THEN throwCount + 1 ELSE throwCount
  /\ pausedSince' = IF r = "resume" THEN FALSE ELSE pausedSince

\* a faulty report made before equity.push: the curve lacks the entry of the candle
SnapshotBeforePush(st, paused) ==
  [currentCandle |-> i, totalCandles |-> Len(rows), trades |-> st.trades,
   equity |-> SubSeq(st.equity, 1, Len(st.equity) - 1),
   initialCapital |-> initialCapital,
   currentCapital |-> st.currentCapital, isPaused |-> paused,
   lastAnalysis |-> IF paused THEN NoAnalysis ELSE st.lastAnalysis]

Snapshot(st, paused) ==
  [currentCandle |-> i, totalCandles |-> Len(rows), trades |-> st.trades,
   equity |-> st.equity, initialCapital |-> initialCapital,
   currentCapital |-> st.currentCapital, isPaused |-> paused,
   lastAnalysis |-> IF paused THEN NoAnalysis ELSE st.lastAnalysis]

(***************************************************************************)
(* backtest(data, initialCapital, onProgress)                              *)
(***************************************************************************)
\* the call up to the loop: the log line reads data.length, then the validation
Fails(arg) ==
  IF arg.kind = "nullish" THEN "TypeError"
  ELSE IF arg.kind # "array" \/ Len(arg.rows) = 0 THEN "Invalid historical data"
  ELSE "no"

backtest(arg, capital, callback) ==
  /\ runNo' = runNo + 1
  /\ data' = arg
  /\ initialCapital' = capital
  /\ onProgress' = callback
  /\ start' = [position |-> position, entryPrice |-> entryPrice,
               positionSize |-> positionSize]
  /\ pausedSince' = FALSE
  /\ processed' = 0
  /\ event' = Quiet("backtest")
  /\ lastAnalysis' = NoAnalysis
  /\ trades' = <<>>
  /\ winningTrades' = 0
  /\ losingTrades' = 0
  /\ maxDrawdown' = FromInt(0)
  /\ IF Fails(arg) # "no"
     THEN /\ pc' = "failed"
          /\ outcome' = [kind |-> "error", error |-> Fails(arg)]
          /\ equity' = <<>>
          /\ currentCapital' = FromInt(0)
          /\ maxCapital' = FromInt(0)
          /\ i' = 0
     ELSE /\ pc' = "loop"
          /\ outcome' = NoOutcome
          /\ equity' = <<capital>>
          /\ currentCapital' = capital
          /\ maxCapital' = capital
          /\ i' = minCandles
  /\ UNCHANGED <<trading, lastRequest, manager>>
  /\ UNCHANGED <<instance, isPaused, pauseCalls, throwCount>>

\* the loop condition fails: the summary is returned
Finish ==
  /\ pc = "loop"
  /\ i >= Len(rows)
  /\ pc' = "done"
  /\ outcome' = Summary(St, initialCapital)
  /\ event' = Quiet("finish")
  /\ UNCHANGED <<trading, lastRequest, manager>>
  /\ UNCHANGED <<instance, isPaused, args, i, locals, pauseCalls, throwCount, ghost,
                 pausedSince>>

\* while (this.isPaused) is entered: the run awaits the 100 ms timer
Suspend ==
  /\ pc = "loop"
  /\ i < Len(rows)
  /\ isPaused
  /\ pc' = "sleeping"
  /\ pausedSince' = TRUE
  /\ event' = Quiet("suspend")
  /\ UNCHANGED <<trading, lastRequest, manager>>
  /\ UNCHANGED <<instance, isPaused, args, i, locals, outcome, pauseCalls,
                 throwCount, ghost>>

\* a faulty handler: the candle is tried again
CaughtRetries(idx) == idx

\* catch (error) { ...; continue }: the loop goes on with the next index
Caught(idx) == idx + 1

\* the 100 ms timer fires: the paused snapshot is reported and the flag read again;
\* a throw of the callback lands in the candle's catch, which moves on to i + 1
Poll ==
  /\ pc = "sleeping"
  /\ \E r \in (IF onProgress THEN Reactions ELSE {"return"}) :
       /\ Observed(r)
       /\ event' = Event("poll", onProgress, IF onProgress THEN Snapshot(St, TRUE)
                                             ELSE NoSnapshot, r = "throw")
       /\ IF r = "throw"
          THEN /\ i' = Caught(i)
               /\ pc' = "loop"
               /\ UNCHANGED isPaused
          ELSE /\ isPaused' = FlagAfter(r)
               /\ pc' = IF FlagAfter(r) THEN "sleeping" ELSE "loop"
               /\ UNCHANGED i
  /\ UNCHANGED <<trading, lastRequest, manager>>
  /\ UNCHANGED <<instance, args, locals, outcome, ghost>>

ReportEvery == 50

YieldEvery == 100

\* a faulty throttle: every processed candle is reported
ReportsAlways(st) == onProgress

\* progress is reported every 50 candles, and at every candle once a trade exists
Reports(st) == onProgress /\ (i % ReportEvery = 0 \/ Len(st.trades) > 0)

\* one candle: window, analysis, trading logic, equity.push, the progress report
\* and, at every 100th index, the await of a 0 ms timer
Step ==
  /\ pc = "loop"
  /\ i < Len(rows)
  /\ ~isPaused
  /\ IF WindowThrows(rows, i)
     THEN /\ i' = Caught(i)
          /\ pc' = "loop"
          /\ event' = Event("step", FALSE, NoSnapshot, TRUE)
          /\ UNCHANGED <<instance, isPaused, locals, pauseCalls, throwCount,
                         pausedSince, processed>>
     ELSE \E st \in {processCandle(St, rows, i, rsiPeriod, signalThreshold)} :
            /\ SetSt(st)
            /\ processed' = processed + 1
            /\ \E r \in (IF Reports(st) THEN Reactions ELSE {"return"}) :
                 /\ Observed(r)
                 /\ event' = Event("step", Reports(st),
                                   IF Reports(st) THEN Snapshot(st, FALSE)
                                   ELSE NoSnapshot,
                                   r = "throw")
                 /\ isPaused' = FlagAfter(r)
                 /\ IF r = "throw"
                    THEN pc' = "loop" /\ i' = Caught(i)
                    ELSE IF i % YieldEvery = 0
                    THEN pc' = "yielded" /\ UNCHANGED i
                    ELSE pc' = "loop" /\ i' = i + 1
            /\ UNCHANGED <<rsiPeriod, signalThreshold>>
  /\ UNCHANGED <<trading, lastRequest, manager>>
  /\ UNCHANGED <<args, outcome, runNo, start>>

\* the 0 ms timer fires: the loop goes on with the next index
Wake ==
  /\ pc = "yielded"
  /\ pc' = "loop"
  /\ i' = i + 1
  /\ event' = Quiet("wake")
  /\ UNCHANGED <<trading, lastRequest, manager>>
  /\ UNCHANGED <<instance, isPaused, args, locals, outcome, pauseCalls, throwCount,
                 ghost, pausedSince>>

\* the caller starts a run when none is under way on the instance
Call(maxRuns) ==
  /\ pc \in {"idle", "done", "failed"}
  /\ runNo < maxRuns
  /\ \E arg \in Arguments(rsiPeriod), capital \in Capitals, callback \in BOOLEAN :
       backtest(arg, FromInt(capital), callback)

Run == Finish \/ Suspend \/ Poll \/ Step \/ Wake

\* one backtest() on a fresh instance
Next == Call(1) \/ pause \/ resume \/ Run

Spec == Init /\ [][Next]_vars

\* the 100 ms timer of a suspended run fires: a poll that stays possible is taken
SpecFair == Spec /\ WF_vars(Poll)

\* the instance is used for one run after the other
NextReuse == Call(MaxRuns) \/ pause \/ resume \/ Run

SpecReuse == Init /\ [][NextReuse]_vars

(***************************************************************************)
(* The library called on its own: analyze() of an instance on market         *)
(* windows of any length, the short ones included                            *)
(***************************************************************************)
MaxWindow == 3

\* the RSI periods and thresholds of the instances analyze() is called on
LibraryConfigs == {1, 2, 14} \X {25, 20}

WindowCandles == {<<8, 1>>, <<10, 1>>, <<11, 1>>, <<12, 1>>, <<10, 4>>}

\* 100 candles with closes 100, 101, ..., 199 and volume 1000
RisingSeries == [k \in 1..100 |-> Row(<<99 + k, 1000>>, k - 1)]

\* 3 candles of volume 7, 15 of volume `before` and 5 of volume `recent`, at the
\* base close
VolumeSeries(before, recent) ==
  [k \in 1..23 |->
     Row(<<BaseClose, IF k <= 3 THEN 7 ELSE IF k <= 18 THEN before ELSE recent>>,
         k - 1)]

\* the first window a run analyses (27 candles) in a market without volume until
\* the last 5 candles, which have volume `recent`
QuietSeries(recent) ==
  [k \in 1..(ShortLen + 1) |->
     Row(<<BaseClose, IF k <= ShortLen - 4 THEN 0 ELSE recent>>, k - 1)]

\* market windows: up to MaxWindow candles, alone or after the flat warm-up, the
\* rising series, the windows of two volume levels and the quiet markets
Windows ==
  {Series(n, t) : n \in {0, ShortLen}, t \in Tails(WindowCandles, 1..MaxWindow)}
  \cup {RisingSeries}
  \cup {VolumeSeries(before, recent) : before \in {0, 2}, recent \in 0..4}
  \cup {QuietSeries(recent) : recent \in {0, 3}}

InitLibrary ==
  /\ \E c \in LibraryConfigs : rsiPeriod = c[1] /\ signalThreshold = c[2]
  /\ position = "none"
  /\ entryPrice = 0
  /\ positionSize = FromInt(0)
  /\ isPaused = FALSE
  /\ pc = "idle"
  /\ data = [kind |-> "array", rows |-> <<>>]
  /\ initialCapital = FromInt(0)
  /\ onProgress = FALSE
  /\ i = 0
  /\ trades = <<>>
  /\ equity = <<>>
  /\ currentCapital = FromInt(0)
  /\ maxCapital = FromInt(0)
  /\ maxDrawdown = FromInt(0)
  /\ winningTrades = 0
  /\ losingTrades = 0
  /\ lastAnalysis = NoAnalysis
  /\ outcome = NoOutcome
  /\ event = Quiet("new")
  /\ runNo = 0
  /\ pauseCalls = 0
  /\ throwCount = 0
  /\ start = [position |-> "none", entryPrice |-> 0, positionSize |-> FromInt(0)]
  /\ processed = 0
  /\ pausedSince = FALSE
  /\ NoCall
  /\ ManagerIdle

\* strategy.analyze({prices, volumes, timestamp}) on a window, once per instance (the
\* call reads the two constructor fields and writes nothing): the StrategyResult is
\* kept in `outcome`, the window in `data`
Analyze ==
  /\ pc = "idle"
  /\ runNo = 0
  /\ runNo' = runNo + 1
  /\ \E window \in Windows :
       /\ data' = [kind |-> "market", rows |-> window]
       /\ \E result \in {analyze(WindowPrices(window, Len(window) - 1),
                                  WindowVolumes(window, Len(window) - 1),
                                  rsiPeriod, signalThreshold)} :
            outcome' = [kind |-> "analysis", result |-> result]
  /\ event' = Quiet("analyze")
  /\ UNCHANGED <<trading, lastRequest, manager>>
  /\ UNCHANGED <<instance, isPaused, pc, initialCapital, onProgress, i, locals,
                 pauseCalls, throwCount, start, processed, pausedSince>>

SpecLibrary == InitLibrary /\ [][Analyze]_vars

\* an analysis was made; the prices of its window
Analyzed == outcome.kind = "analysis"

AnalyzedPrices == WindowPrices(rows, Len(rows) - 1)

(***************************************************************************)
(* TradingService.placeOrder: one call, the requests it sends to the        *)
(* exchange through BinanceAPI.makeRequest and the OrderResponse it          *)
(* resolves to                                                               *)
(***************************************************************************)
\* the variables of the backtest engine, which placeOrder does not touch
engine == <<instance, isPaused, pc, args, i, locals, outcome, event,
            pauseCalls, throwCount, ghost, pausedSince>>

\* the orders a call may pass. wellFormed: the local checks of validateOrder pass
\* (pair, amount, limit price, positive stop-loss and take-profit); leverage: not
\* given, within 1..125 or out of it; stopLoss and takeProfit: not given, on the
\* right side of the current price or not
Orders ==
  {o \in [mode : {"spot", "futures"}, config : BOOLEAN, wellFormed : BOOLEAN,
          leverage : {"none", "ok", "out"}, marginType : BOOLEAN,
          type : {"market", "limit", "strategy", "other"}, hasStrategy : BOOLEAN,
          stopLoss : {"none", "consistent", "inconsistent"},
          takeProfit : {"none", "consistent", "inconsistent"}] :
     /\ o.hasStrategy => o.type = "strategy"
     /\ o.mode = "spot" => ~o.config /\ o.leverage = "none" /\ ~o.marginType}

\* a request that makeRequest sent, the order leg it places or cancels, and what
\* came back: "ok" is response.ok, anything else gives success: false
Sent(request, leg, result) == [request |-> request, leg |-> leg, result |-> result]

\* the error of a failed makeRequest: data.msg || 'Unknown error occurred'
ExchangeError == "Unknown error occurred"

\* a faulty check of a leg's response: every response counts as accepted
AcceptedAlways(result) == TRUE

\* a faulty check of a response: the test of response.success is inverted
AcceptedInverted(result) == result # "ok"

\* response.success
Accepted(result) == result = "ok"

\* !response.success && !response.error?.includes('already')
Refused(result) == ~Accepted(result) /\ result # "already"

Failure(message) == [kind |-> "response", success |-> FALSE, error |-> message]

Success == [kind |-> "response", success |-> TRUE, orderId |-> "orderId"]

\* throw new Error(message) inside the try block: the catch returns the failure
Throw(message) ==
  /\ stage' = "returned"
  /\ reply' = Failure(message)

\* the call goes on to its next stage
Proceed(next) ==
  /\ stage' = next
  /\ UNCHANGED reply

\* the caller places an order
PlaceOrder ==
  /\ stage = "idle"
  /\ \E o \in Orders : order' = o
  /\ stage' = "validateAPIKeys"
  /\ UNCHANGED <<requests, reply, engine, lastRequest, manager>>

\* await this.validateAPIKeys()
ValidateAPIKeys ==
  /\ stage = "validateAPIKeys"
  /\ \E r \in {"ok", "rejected"} :
       /\ requests' = Append(requests, Sent("getAccountInfo", "none", r))
       /\ IF Accepted(r)
          THEN Proceed("configureFuturesAccount")
          ELSE Throw("Invalid API keys or insufficient permissions. Please check your API configuration.")
  /\ UNCHANGED <<order, engine, lastRequest, manager>>

\* await this.configureFuturesAccount(symbol, futuresConfig): position mode, leverage
\* and margin type are set in this order, up to the first refusal
ConfigureFuturesAccount ==
  /\ stage = "configureFuturesAccount"
  /\ IF order.mode = "futures" /\ order.config
     THEN \E rp \in {"ok", "already", "rejected"}, rl \in {"ok", "rejected"},
             rm \in {"ok", "already", "rejected"} :
            IF Refused(rp)
            THEN /\ requests' = Append(requests, Sent("setPositionMode", "none", rp))
                 /\ Throw("Failed to set position mode: Unknown error occurred")
            ELSE IF ~Accepted(rl)
            THEN /\ requests' = requests \o <<Sent("setPositionMode", "none", rp),
                                               Sent("setLeverage", "none", rl)>>
                 /\ Throw("Failed to set leverage: Unknown error occurred")
            ELSE /\ requests' = requests \o <<Sent("setPositionMode", "none", rp),
                                               Sent("setLeverage", "none", rl),
                                               Sent("setMarginType", "none", rm)>>
                 /\ IF Refused(rm)
                    THEN Throw("Failed to set margin type: Unknown error occurred")
                    ELSE Proceed("validateOrder")
     ELSE /\ Proceed("validateOrder")
          /\ UNCHANGED requests
  /\ UNCHANGED <<order, engine, lastRequest, manager>>

\* await this.validateOrder(order, mode): the local checks, then for futures the
\* leverage and the margin type of the order
ValidateOrder ==
  /\ stage = "validateOrder"
  /\ IF ~order.wellFormed
     THEN Throw("Invalid order amount") /\ UNCHANGED requests
     ELSE IF order.mode = "futures" /\ order.leverage = "out"
     THEN Throw("Leverage must be between 1x and 125x") /\ UNCHANGED requests
     ELSE \E rl \in {"ok", "rejected"}, rm \in {"ok", "already", "rejected"} :
            \E leverage \in {IF order.mode = "futures" /\ order.leverage = "ok"
                              THEN <<Sent("setLeverage", "none", rl)>> ELSE <<>>},
               margin \in {IF order.mode = "futures" /\ order.marginType
                            THEN <<Sent("setMarginType", "none", rm)>> ELSE <<>>} :
              IF leverage # <<>> /\ ~Accepted(rl)
              THEN /\ requests' = requests \o leverage
                   /\ Throw("Failed to set leverage: Unknown error occurred")
              ELSE /\ requests' = requests \o leverage \o margin
                   /\ IF margin # <<>> /\ Refused(rm)
                      THEN Throw("Failed to set margin type: Unknown error occurred")
                      ELSE Proceed("validateSymbol")
  /\ UNCHANGED <<order, engine, lastRequest, manager>>

\* await this.validateSymbol(symbol, mode): "unlisted" is an exchange info without
\* the symbol, or with the symbol not open for this kind of trading
ValidateSymbol ==
  /\ stage = "validateSymbol"
  /\ \E r \in {"ok", "unlisted", "rejected"} :
       /\ requests' = Append(requests, Sent("getExchangeInfo", "none", r))
       /\ IF r = "ok" THEN Proceed("getSymbolPriceTicker")
          ELSE IF r = "unlisted" THEN Throw("Trading pair is not available")
          ELSE Throw(ExchangeError)
  /\ UNCHANGED <<order, engine, lastRequest, manager>>

\* the price fetch and the checks of stop-loss and take-profit against the price
\* ("missing": no price in the answer, "unparsable": parseFloat gives NaN)
GetSymbolPriceTicker ==
  /\ stage = "getSymbolPriceTicker"
  /\ \E r \in {"ok", "missing", "unparsable", "rejected"} :
       /\ requests' = Append(requests, Sent("getSymbolPriceTicker", "none", r))
       /\ IF r \in {"missing", "rejected"}
          THEN Throw("Unable to get current market price. Please try again.")
          ELSE IF r = "unparsable"
          THEN Throw("Invalid market price received")
          ELSE IF order.stopLoss = "inconsistent"
          THEN Throw("Stop loss price must be below current price for buy orders and above for sell orders")
          ELSE IF order.takeProfit = "inconsistent"
          THEN Throw("Take profit price must be above current price for buy orders and below for sell orders")
          ELSE Proceed("placeMainOrder")
  /\ UNCHANGED <<order, engine, lastRequest, manager>>

\* the main order ("noId": accepted, but the answer carries no orderId)
PlaceMainOrder ==
  /\ stage = "placeMainOrder"
  /\ IF order.type = "strategy" /\ ~order.hasStrategy
     THEN Throw("Strategy is required for strategy orders") /\ UNCHANGED requests
     ELSE IF order.type = "other"
     THEN /\ Throw("Order placement failed. Please check your account balance and try again.")
          /\ UNCHANGED requests
     ELSE \E r \in {"ok", "noId", "rejected"} :
            /\ requests' = Append(requests, Sent("placeOrder", "main", r))
            /\ IF r = "rejected" THEN Throw(ExchangeError)
               ELSE IF r = "noId"
               THEN Throw("Invalid order response received from exchange")
               ELSE Proceed("placeStopLossOrder")
  /\ UNCHANGED <<order, engine, lastRequest, manager>>

\* the stop-loss leg, and the cancel request of the main order when it is rejected
PlaceStopLossOrder ==
  /\ stage = "placeStopLossOrder"
  /\ IF order.stopLoss = "none"
     THEN Proceed("placeTakeProfitOrder") /\ UNCHANGED requests
     ELSE \E r \in {"ok", "rejected"}, c \in {"ok", "rejected"} :
            IF Accepted(r)
            THEN /\ requests' = Append(requests, Sent("placeOrder", "stopLoss", r))
                 /\ Proceed("placeTakeProfitOrder")
            ELSE /\ requests' = requests \o <<Sent("placeOrder", "stopLoss", r),
                                               Sent("cancelOrder", "main", c)>>
                 /\ Throw("Failed to place stop loss order. Main order has been cancelled.")
  /\ UNCHANGED <<order, engine, lastRequest, manager>>

\* the take-profit leg, the cancel request of the main order when it is rejected,
\* and the success response
PlaceTakeProfitOrder ==
  /\ stage = "placeTakeProfitOrder"
  /\ IF order.takeProfit = "none"
     THEN stage' = "returned" /\ reply' = Success /\ UNCHANGED requests
     ELSE \E r \in {"ok", "rejected"}, c \in {"ok", "rejected"} :
            IF Accepted(r)
            THEN /\ requests' = Append(requests, Sent("placeOrder", "takeProfit", r))
                 /\ stage' = "returned"
                 /\ reply' = Success
            ELSE /\ requests' = requests \o <<Sent("placeOrder", "takeProfit", r),
                                               Sent("cancelOrder", "main", c)>>
                 /\ Throw("Failed to place take profit order. Main order has been cancelled.")
  /\ UNCHANGED <<order, engine, lastRequest, manager>>

NextTrading ==
  \/ PlaceOrder
  \/ ValidateAPIKeys
  \/ ConfigureFuturesAccount
  \/ ValidateOrder
  \/ ValidateSymbol
  \/ GetSymbolPriceTicker
  \/ PlaceMainOrder
  \/ PlaceStopLossOrder
  \/ PlaceTakeProfitOrder

\* one placeOrder call
InitTrading == Init /\ rsiPeriod = 14 /\ signalThreshold = 25

SpecTrading == InitTrading /\ [][NextTrading]_vars

\* the call has resolved
Returned == stage = "returned"

\* a request of this kind for this leg was sent, and with this outcome
WasSent(request, leg) ==
  \E k \in 1..Len(requests) :
    requests[k].request = request /\ requests[k].leg = leg

Placed(leg) ==
  \E k \in 1..Len(requests) :
    /\ requests[k].request = "placeOrder"
    /\ requests[k].leg = leg
    /\ requests[k].result = "ok"

(***************************************************************************)
(* BinanceAPI.makeRequest: the query string of one request and its          *)
(* signature                                                                *)
(***************************************************************************)
\* the variables makeRequest does not touch
untouched == <<engine, trading, manager>>

\* the parameter keys of an order request, in the order the caller writes them
ParamKeys == <<"symbol", "side", "type", "quantity">>

\* what a caller passes for a key: nothing, null, undefined, or a value
ParamValues == {"absent", "null", "undefined", "BTCUSDT", "a&b"}

\* the keys of a query string in the order localeCompare puts them
Alphabet == <<"quantity", "recvWindow", "side", "signature", "symbol", "timestamp",
              "type">>

Rank(key) == CHOOSE k \in 1..Len(Alphabet) : Alphabet[k] = key

\* Object.entries(params): the keys the caller wrote, in that order
RECURSIVE Entries(_, _)
Entries(params, k) ==
  IF k > Len(ParamKeys) THEN <<>>
  ELSE (IF params[ParamKeys[k]] = "absent" THEN <<>>
        ELSE <<<<ParamKeys[k], <<"string", params[ParamKeys[k]]>>>>>>)
       \o Entries(params, k + 1)

\* the reduce of lines 84-89: entries that are undefined or null are dropped
RECURSIVE Clean(_)
Clean(entries) ==
  IF entries = <<>> THEN <<>>
  ELSE (IF Head(entries)[2][2] \in {"null", "undefined"} THEN <<>>
        ELSE <<Head(entries)>>)
       \o Clean(Tail(entries))

RecvWindow == 60000

\* { ...cleanParams, timestamp, recvWindow } for a signed request
RequestParams(clean, signed, timestamp) ==
  IF signed
  THEN clean \o <<<<"timestamp", <<"number", timestamp>>>>,
                  <<"recvWindow", <<"number", RecvWindow>>>>>>
  ELSE clean

\* the entry put among entries that are in order already
Insert(entry, sorted) ==
  LET before == Cardinality({j \in 1..Len(sorted) :
                               Rank(sorted[j][1]) <= Rank(entry[1])})
  IN  SubSeq(sorted, 1, before) \o <<entry>> \o SubSeq(sorted, before + 1, Len(sorted))

\* a faulty query string: the entries stay in the order of the object
Unsorted(entries) == entries

\* .sort(([a], [b]) => a.localeCompare(b))
RECURSIVE Sorted(_)
Sorted(entries) ==
  IF entries = <<>> THEN <<>>
  ELSE Insert(entries[Len(entries)], Sorted(SubSeq(entries, 1, Len(entries) - 1)))

\* encodeURIComponent(value): a number is written in decimal, the reserved
\* character & of a string is escaped
Encoded(value) ==
  IF value[1] = "number" THEN ToString(value[2])
  ELSE IF value[2] = "a&b" THEN "a%26b"
  ELSE value[2]

\* key=encodeURIComponent(value) of every entry; join('&') keeps their order
QueryString(entries) ==
  [k \in 1..Len(entries) |-> <<entries[k][1], Encoded(entries[k][2])>>]

ApiSecret == "API_SECRET"

\* hmacSha256(API_SECRET, queryString), kept by its arguments
Signature(queryString) == [hmac |-> "sha256", key |-> ApiSecret, message |-> queryString]

\* `${queryString}&signature=${signature}` when signed and queryString is not empty
FullQueryString(queryString, signed) ==
  IF signed /\ queryString # <<>>
  THEN Append(queryString, <<"signature", ToString(Signature(queryString))>>)
  ELSE queryString

\* what Date.now() may return
Clock == {1700000000, 1700000001}

\* one makeRequest call, up to the URL it fetches
MakeRequest ==
  /\ lastRequest = NoRequest
  /\ \E params \in [{ParamKeys[k] : k \in 1..Len(ParamKeys)} -> ParamValues],
        signed \in BOOLEAN, timestamp \in Clock :
       \E queryString \in {QueryString(Sorted(RequestParams(Clean(Entries(params, 1)),
                                                             signed, timestamp)))} :
         lastRequest' = [kind |-> "request", params |-> params, signed |-> signed,
                         timestamp |-> timestamp, queryString |-> queryString,
                         fullQueryString |-> FullQueryString(queryString, signed)]
  /\ UNCHANGED untouched

SpecRequest == InitTrading /\ [][MakeRequest]_vars

\* the keys of a query string
KeysOf(query) == {query[k][1] : k \in 1..Len(query)}

\* the keys the caller gave a value that is neither null nor undefined
GivenKeys(params) ==
  {key \in DOMAIN params : params[key] \notin {"absent", "null", "undefined"}}

(***************************************************************************)
(* HistoricalDataManager: fetchHistoricalData, batch by batch               *)
(***************************************************************************)
\* the variables the manager does not touch
backend == <<engine, trading, lastRequest>>

\* times are counted in a coarse unit from 0 to MaxTime
MaxTime == 4

\* 1000 * getTimeframeMs(timeframe), the span of one batch, in that unit
BatchSpan == 2

\* the limit of 1000 candles of one answer, scaled down
MaxBatch == 2

\* closeTime - openTime of a candle
Durations == {0, 1}

\* a kline row of the exchange, by its open time (candle[0]) and close time
\* (candle[6])
Kline(openTime, closeTime) == [openTime |-> openTime, closeTime |-> closeTime]

\* what the exchange may answer to startTime = from, endTime = to: up to MaxBatch
\* klines in ascending order, each opening within the range and closing no earlier
\* than it opens
Answers(from, to) ==
  {<<>>}
  \cup UNION {{answer \in [1..n -> {Kline(o, o + d) : o \in from..to, d \in Durations}] :
                 \A k \in 1..(n - 1) : answer[k].openTime < answer[k + 1].openTime} :
              n \in 1..MaxBatch}

\* data.map(candle => ({timestamp: candle[0], ...}))
Formatted(answer) == [k \in 1..Len(answer) |-> [timestamp |-> answer[k].openTime]]

\* a faulty continuation: the next batch starts at the open time of the last candle
NextStartAtOpen(answer) == answer[Len(answer)].openTime

\* data[data.length - 1][6] + 1
NextStart(answer) == answer[Len(answer)].closeTime + 1

\* Math.min(currentStart + 1000 * getTimeframeMs(timeframe), endTime)
BatchEnd == IF currentStart + BatchSpan < endTime THEN currentStart + BatchSpan
            ELSE endTime

\* setHistoricalData(allData); onDataFetched(allData)
Deliver(dataset) ==
  /\ historicalData' = dataset
  /\ delivered' = Append(delivered, dataset)

\* the user starts a fetch for a time range
FetchHistoricalData ==
  /\ job = "idle"
  /\ \E startTime \in 0..1, end \in 0..MaxTime :
       /\ currentStart' = startTime
       /\ endTime' = end
  /\ allData' = <<>>
  /\ batches' = <<>>
  /\ job' = "fetching"
  /\ UNCHANGED <<historicalData, delivered, upload, backend>>

\* one turn of the loop: the batch is requested; an HTTP error ends the fetch with
\* nothing delivered, an empty batch ends the loop and the data is delivered, any
\* other batch is appended and the next start set
FetchKlines ==
  /\ job = "fetching"
  /\ currentStart < endTime
  /\ \/ /\ job' = "failed"
        /\ UNCHANGED <<historicalData, delivered, currentStart, endTime, allData,
                       batches>>
     \/ \E answer \in Answers(currentStart, BatchEnd) :
          /\ batches' = Append(batches, [startTime |-> currentStart,
                                         endTime |-> BatchEnd, data |-> answer])
          /\ IF answer = <<>>
             THEN /\ Deliver(allData)
                  /\ job' = "fetched"
                  /\ UNCHANGED <<currentStart, allData>>
             ELSE /\ allData' = allData \o Formatted(answer)
                  /\ currentStart' = NextStart(answer)
                  /\ UNCHANGED <<historicalData, delivered, job>>
          /\ UNCHANGED endTime
  /\ UNCHANGED <<upload, backend>>

\* the loop condition fails: the data is delivered
FetchComplete ==
  /\ job = "fetching"
  /\ currentStart >= endTime
  /\ Deliver(allData)
  /\ job' = "fetched"
  /\ UNCHANGED <<currentStart, endTime, allData, batches, upload, backend>>

NextFetch == FetchHistoricalData \/ FetchKlines \/ FetchComplete

\* one fetch; the awaited answer arrives and the loop goes on
SpecFetch ==
  /\ InitTrading
  /\ [][NextFetch]_vars
  /\ WF_vars(FetchKlines)
  /\ WF_vars(FetchComplete)

\* the candles of the batches requested so far, in the order of the requests
RECURSIVE Concatenated(_, _)
Concatenated(bs, k) ==
  IF k > Len(bs) THEN <<>> ELSE Formatted(bs[k].data) \o Concatenated(bs, k + 1)

(***************************************************************************)
(* HistoricalDataManager: handleFileUpload                                  *)
(***************************************************************************)
\* requiredFields
RequiredFields == <<"timestamp", "open", "high", "low", "close", "volume">>

\* the most rows a file holds
MaxRows == 2

\* a value of a row: a number, a string, null, undefined, or no such key
Absent == <<"absent", 0>>
Undefined == <<"undefined", 0>>
Null == <<"null", 0>>

\* new Date(value).getTime(), in seconds: a number is the time itself, an ISO date
\* is parsed, null is converted to 0, and anything else is an invalid date
DateTime(value) ==
  CASE value[1] = "number" -> <<value[2], 1>>
    [] value = <<"string", "2024-01-01">> -> <<1704067200, 1>>
    [] value = Null -> <<0, 1>>
    [] OTHER -> NaN

\* parseFloat(value): the longest numeric prefix of the value as a string
ParseFloat(value) ==
  CASE value[1] = "number" -> <<value[2], 1>>
    [] value = <<"string", "10.5">> -> <<21, 2>>
    [] value = <<"string", "12abc">> -> <<12, 1>>
    [] value = <<"string", "2024-01-01">> -> <<2024, 1>>
    [] OTHER -> NaN

\* the values of a row of a JSON file with numbers in every field
JsonRow == [field \in {RequiredFields[k] : k \in 1..Len(RequiredFields)} |->
              IF field = "timestamp" THEN <<"number", 1700000000>> ELSE <<"number", 10>>]

\* the values of a row parseCSV builds: every value is a string
CsvRow == [field \in DOMAIN JsonRow |->
             IF field = "timestamp" THEN <<"string", "2024-01-01">>
             ELSE <<"string", "10.5">>]

\* an element of the parsed array that is an object with these values
Object(values) == [object |-> TRUE, values |-> values]

\* array elements that are no objects, such as 1 or null
NotObjects == {[object |-> FALSE, values |-> [field \in DOMAIN JsonRow |-> Absent]]}

\* the rows of JSON files
JsonRows ==
  {Object(JsonRow),
   Object([JsonRow EXCEPT !["timestamp"] = <<"string", "abc">>]),
   Object([JsonRow EXCEPT !["timestamp"] = Null]),
   Object([JsonRow EXCEPT !["open"] = <<"string", "abc">>]),
   Object([JsonRow EXCEPT !["high"] = Null]),
   Object([JsonRow EXCEPT !["low"] = Absent]),
   Object([JsonRow EXCEPT !["close"] = <<"string", "12abc">>]),
   Object([JsonRow EXCEPT !["volume"] = Absent])}
  \cup NotObjects

\* the rows of CSV files: a header may be missing, a line may be short
CsvRows ==
  {Object(CsvRow),
   Object([CsvRow EXCEPT !["timestamp"] = <<"string", "abc">>]),
   Object([CsvRow EXCEPT !["close"] = Absent]),
   Object([CsvRow EXCEPT !["volume"] = Undefined])}

\* the arrays of up to MaxRows of these rows
Arrays(kinds) ==
  {[kind |-> "array", items |-> items] : items \in UNION {[1..n -> kinds] : n \in 0..MaxRows}}

\* a parsed JSON text that is no array
NotArray == [kind |-> "object", items |-> <<>>]

\* what a failed parse leaves: an exception
Thrown == [kind |-> "throws", items |-> <<>>]

\* the files: a name with an extension, and a content that is a JSON text (of an
\* array, or of an object), a CSV text, or neither
Files ==
  [name : {"data.csv", "data.json", "data.txt"},
   content : [format : {"json"}, value : Arrays(JsonRows) \cup {NotArray}]
             \cup [format : {"csv"}, value : Arrays(CsvRows)]
             \cup [format : {"text"}, value : {NotArray}]]

\* JSON.parse(fileContent): throws on a text that is no JSON
JSONParse(content) ==
  IF content.format = "json" THEN content.value ELSE Thrown

\* parseCSV(fileContent): never throws; a text that is no table of candles gives
\* rows without the candle fields
ParseCSV(content) ==
  IF content.format = "csv" THEN content.value
  ELSE [kind |-> "array",
        items |-> <<Object([field \in DOMAIN JsonRow |-> Absent])>>]

\* parsedData, by the extension of the file name
ParsedData(file) ==
  CASE file.name = "data.csv" -> ParseCSV(file.content)
    [] file.name = "data.json" -> JSONParse(file.content)
    [] OTHER -> Thrown

\* requiredFields.every(field => field in row) && !isNaN(...) && ...
RowPasses(row) ==
  /\ \A k \in 1..Len(RequiredFields) : row[RequiredFields[k]] # Absent
  /\ DateTime(row.timestamp) # NaN
  /\ ParseFloat(row.open) # NaN
  /\ ParseFloat(row.high) # NaN
  /\ ParseFloat(row.low) # NaN
  /\ ParseFloat(row.close) # NaN
  /\ ParseFloat(row.volume) # NaN

\* a faulty validation that looks at the first row only
RECURSIVE ValidateFirstRow(_, _)
ValidateFirstRow(parsed, k) ==
  CASE parsed.kind # "array" -> "false"
    [] Len(parsed.items) = 0 -> "false"
    [] ~parsed.items[1].object -> "throws"
    [] OTHER -> IF RowPasses(parsed.items[1].values) THEN "true" ELSE "false"

\* validateData(data), from row k on: every() stops at the first row that fails, and
\* `field in row` throws on a row that is no object
RECURSIVE ValidateData(_, _)
ValidateData(parsed, k) ==
  CASE parsed.kind # "array" -> "false"
    [] Len(parsed.items) = 0 -> "false"
    [] k > Len(parsed.items) -> "true"
    [] ~parsed.items[k].object -> "throws"
    [] OTHER -> IF RowPasses(parsed.items[k].values) THEN ValidateData(parsed, k + 1)
                ELSE "false"

\* formattedData
FormattedData(parsed) ==
  [k \in 1..Len(parsed.items) |->
     LET row == parsed.items[k].values IN
       [timestamp |-> DateTime(row.timestamp), open |-> ParseFloat(row.open),
        high |-> ParseFloat(row.high), low |-> ParseFloat(row.low),
        close |-> ParseFloat(row.close), volume |-> ParseFloat(row.volume)]]

\* the user chooses a file: it is read, parsed and validated, and delivered; any
\* error thrown on the way is caught and logged.  Imports are followed up to the
\* first file that is rejected, or the first one that replaces an imported one.
HandleFileUpload ==
  /\ job \in {"idle", "imported"}
  /\ \E file \in Files :
       /\ upload' = file
       /\ LET parsedData == ParsedData(file) IN
          IF parsedData # Thrown /\ ValidateData(parsedData, 1) = "true"
          THEN /\ Deliver(FormattedData(parsedData))
               /\ job' = IF job = "idle" THEN "imported" ELSE "replaced"
          ELSE /\ job' = "rejected"
               /\ UNCHANGED <<historicalData, delivered>>
  /\ UNCHANGED <<currentStart, endTime, allData, batches, backend>>

SpecImport == InitTrading /\ [][HandleFileUpload]_vars

(***************************************************************************)
(* The indicator arithmetic in binary64                                     *)
(*                                                                          *)
(* The numbers of the program are IEEE 754 doubles.  A double is modelled   *)
(* as sign * mant * 2^exp with a natural number mant of at most Precision   *)
(* bits, kept as a sequence of limbs, least significant first; every        *)
(* operation rounds the exact result to the nearest such number, ties to    *)
(* even.  Overflow and subnormal numbers do not occur for the prices used.  *)
(***************************************************************************)
\* the bits of a limb
LimbWidth == 15

Limb == 2 ^ LimbWidth

\* the bits of the significand of a double
Precision == 53

\* limb k of a natural number
At(a, k) == IF k <= Len(a) THEN a[k] ELSE 0

\* without leading zero limbs
RECURSIVE Trim(_)
Trim(a) ==
  IF a = <<>> THEN a
  ELSE IF a[Len(a)] = 0 THEN Trim(SubSeq(a, 1, Len(a) - 1)) ELSE a

\* a + b, from limb k on
RECURSIVE PlusFrom(_, _, _, _)
PlusFrom(a, b, k, carry) ==
  IF k > Len(a) /\ k > Len(b) THEN IF carry = 0 THEN <<>> ELSE <<carry>>
  ELSE CHOOSE sum \in {<<s % Limb>> \o PlusFrom(a, b, k + 1, s \div Limb) :
                         s \in {At(a, k) + At(b, k) + carry}} : TRUE

Plus(a, b) == PlusFrom(a, b, 1, 0)

\* a - b for a >= b, from limb k on
RECURSIVE MinusFrom(_, _, _, _)
MinusFrom(a, b, k, borrow) ==
  IF k > Len(a) THEN <<>>
  ELSE CHOOSE difference \in
         {<<(d + Limb) % Limb>> \o MinusFrom(a, b, k + 1, IF d < 0 THEN 1 ELSE 0) :
            d \in {At(a, k) - At(b, k) - borrow}} : TRUE

Minus(a, b) == Trim(MinusFrom(a, b, 1, 0))

\* the sign of a - b, comparing from limb k down
RECURSIVE CompareFrom(_, _, _)
CompareFrom(a, b, k) ==
  IF k = 0 THEN 0
  ELSE IF At(a, k) > At(b, k) THEN 1
  ELSE IF At(a, k) < At(b, k) THEN -1
  ELSE CompareFrom(a, b, k - 1)

Compare(a, b) == CompareFrom(a, b, Max(Len(a), Len(b)))

\* a * f for a factor f below Limb, from limb k on
RECURSIVE TimesLimbFrom(_, _, _, _)
TimesLimbFrom(a, f, k, carry) ==
  IF k > Len(a) THEN IF carry = 0 THEN <<>> ELSE <<carry>>
  ELSE CHOOSE product \in
         {<<p % Limb>> \o TimesLimbFrom(a, f, k + 1, p \div Limb) :
            p \in {a[k] * f + carry}} : TRUE

\* a * Limb^n
LimbsUp(a, n) == [k \in 1..n |-> 0] \o a

\* a * b, from limb k of b on
RECURSIVE TimesFrom(_, _, _)
TimesFrom(a, b, k) ==
  IF k > Len(b) THEN <<>>
  ELSE CHOOSE product \in
         {Plus(LimbsUp(TimesLimbFrom(a, b[k], 1, 0), k - 1), rest) :
            rest \in {TimesFrom(a, b, k + 1)}} : TRUE

Times(a, b) == Trim(TimesFrom(a, b, 1))

\* the limbs 1..k of a \div n for a divisor n below Limb, r being the remainder
\* left by the limbs above k
RECURSIVE QuotientFrom(_, _, _, _)
QuotientFrom(a, n, k, r) ==
  IF k = 0 THEN <<>>
  ELSE CHOOSE quotient \in
         {Append(QuotientFrom(a, n, k - 1, t % n), t \div n) :
            t \in {r * Limb + a[k]}} : TRUE

Quotient(a, n) == Trim(QuotientFrom(a, n, Len(a), 0))

\* a % n
RECURSIVE RemainderFrom(_, _, _, _)
RemainderFrom(a, n, k, r) ==
  IF k = 0 THEN r
  ELSE CHOOSE remainder \in
         {RemainderFrom(a, n, k - 1, t) : t \in {(r * Limb + a[k]) % n}} : TRUE

Remainder(a, n) == RemainderFrom(a, n, Len(a), 0)

\* a * 2^bits
BitsUp(a, bits) ==
  Trim(LimbsUp(TimesLimbFrom(a, 2 ^ (bits % LimbWidth), 1, 0), bits \div LimbWidth))

\* a \div 2^bits
BitsDown(a, bits) ==
  Quotient(SubSeq(a, (bits \div LimbWidth) + 1, Len(a)), 2 ^ (bits % LimbWidth))

\* a % 2^bits is not 0
Sticky(a, bits) ==
  \/ \E k \in 1..Min(bits \div LimbWidth, Len(a)) : a[k] # 0
  \/ Remainder(SubSeq(a, (bits \div LimbWidth) + 1, Len(a)), 2 ^ (bits % LimbWidth)) # 0

\* the number of bits of a
BitLength(a) ==
  IF a = <<>> THEN 0
  ELSE LimbWidth * (Len(a) - 1)
       + (CHOOSE n \in 1..LimbWidth : 2 ^ (n - 1) <= a[Len(a)] /\ a[Len(a)] < 2 ^ n)

\* a double
Double(sign, mant, exp) == [sign |-> sign, mant |-> mant, exp |-> exp]

\* the integer n as a double
Binary64(n) ==
  Double(IF n < 0 THEN -1 ELSE 1,
         Trim(<<Abs(n) % Limb, (Abs(n) \div Limb) % Limb, Abs(n) \div (Limb * Limb)>>), 0)

\* 2 * kept + half is mant \div 2^(shift - 1), and sticky tells whether bits were
\* lost below: round to nearest, ties to even
RoundedUp(sign, kept, half, sticky, exp) ==
  Double(sign,
         IF half = 1 /\ (sticky \/ kept[1] % 2 = 1) THEN Plus(kept, <<1>>) ELSE kept,
         exp)

\* sign * mant * 2^exp rounded to a double, the significand having `bits` bits
RoundedAt(sign, mant, exp, bits) ==
  IF bits <= Precision THEN Double(sign, mant, exp)
  ELSE CHOOSE rounded \in
         {RoundedUp(sign, BitsDown(twice, 1), twice[1] % 2, sticky, exp + bits - Precision) :
            twice \in {BitsDown(mant, bits - Precision - 1)},
            sticky \in {Sticky(mant, bits - Precision - 1)}} : TRUE

Rounded(sign, mant, exp) ==
  CHOOSE rounded \in {RoundedAt(sign, m, exp, BitLength(m)) : m \in {mant}} : TRUE

\* x + y for significands a and b brought to the same exponent
AddAligned(x, y, a, b, exp) ==
  IF x.sign = y.sign THEN Rounded(x.sign, Plus(a, b), exp)
  ELSE IF Compare(a, b) >= 0 THEN Rounded(x.sign, Minus(a, b), exp)
  ELSE Rounded(y.sign, Minus(b, a), exp)

\* x + y
AddValues(x, y) ==
  IF x.mant = <<>> THEN y
  ELSE IF y.mant = <<>> THEN x
  ELSE CHOOSE sum \in
         {AddAligned(x, y, a, b, Min(x.exp, y.exp)) :
            a \in {BitsUp(x.mant, x.exp - Min(x.exp, y.exp))},
            b \in {BitsUp(y.mant, y.exp - Min(x.exp, y.exp))}} : TRUE

Add(x, y) == CHOOSE sum \in {AddValues(xv, yv) : xv \in {x}, yv \in {y}} : TRUE

\* x - y
Sub(x, y) ==
  CHOOSE difference \in
    {AddValues(xv, Double(-yv.sign, yv.mant, yv.exp)) : xv \in {x}, yv \in {y}} : TRUE

\* x * y
Mul(x, y) ==
  CHOOSE product \in
    {Rounded(xv.sign * yv.sign, Times(xv.mant, yv.mant), xv.exp + yv.exp) :
       xv \in {x}, yv \in {y}} : TRUE

\* the bits a dividend is extended by before it is divided
GuardBits == 64

\* quotient and remainder of a division of significands as one significand, the
\* last bit telling whether there was a remainder
WithRemainder(quotient, remainder) ==
  Plus(TimesLimbFrom(quotient, 2, 1, 0), IF remainder = 0 THEN <<>> ELSE <<1>>)

\* x / n for an integer n between 1 and Limb - 1
Over(x, n) ==
  CHOOSE ratio \in
    {Rounded(xv.sign, WithRemainder(Quotient(a, n), Remainder(a, n)),
             xv.exp - GuardBits - 1) :
       xv \in {x}, a \in {BitsUp(x.mant, GuardBits)}} : TRUE

\* the sign of a double: 1, -1, or 0
Signum(x) == IF x.mant = <<>> THEN 0 ELSE x.sign

\* arr.reduce((a, b) => a + b, 0), from element k on
RECURSIVE Reduce64(_, _, _)
Reduce64(values, k, acc) ==
  IF k > Len(values) THEN acc
  ELSE CHOOSE sum \in
         {Reduce64(values, k + 1, next) : next \in {Add(acc, values[k])}} : TRUE

\* average(arr)
Average64(values) == Over(Reduce64(values, 1, Binary64(0)), Len(values))

\* the loop of calculateEMA, from element k on
RECURSIVE EMA64From(_, _, _, _)
EMA64From(prices, k, ema, multiplier) ==
  IF k > Len(prices) THEN ema
  ELSE CHOOSE last \in
         {EMA64From(prices, k + 1, next, multiplier) :
            next \in {Add(Mul(Sub(prices[k], ema), multiplier), ema)}} : TRUE

\* calculateEMA(prices, period)
CalculateEMA64(prices, period) ==
  EMA64From(prices, period + 1, Average64(SubSeq(prices, 1, period)),
            Over(Binary64(2), period + 1))

\* calculateSimpleMACD(prices)
CalculateSimpleMACD64(prices) ==
  Sub(CalculateEMA64(prices, 12), CalculateEMA64(prices, 26))

\* calculateMACD(prices): the value and its signal
MacdResult64(macdValue) ==
  [value |-> macdValue,
   signal |-> IF Signum(macdValue) > 0 THEN "buy"
              ELSE IF Signum(macdValue) < 0 THEN "sell" ELSE "neutral",
   weight |-> MacdWeight]

CalculateMACD64(prices) ==
  CHOOSE result \in {MacdResult64(v) : v \in {CalculateSimpleMACD64(prices)}} : TRUE

\* the prices of the flat markets are 0.01, 0.02, ..., MaxCents / 100
MaxCents == 20

\* the flat windows have ShortLen + 1 to ShortLen + 1 + MaxExtra candles
MaxExtra == 4

\* the double that the decimal cents / 100 denotes
Price64(cents) == Over(Binary64(cents), 100)

\* calculateMACD on the prices of a flat market, once per instance: the window is
\* kept in `data`, the IndicatorResult in `outcome`
MacdFlat ==
  /\ pc = "idle"
  /\ runNo = 0
  /\ runNo' = runNo + 1
  /\ \E cents \in 1..MaxCents, length \in (ShortLen + 1)..(ShortLen + 1 + MaxExtra) :
       \E close \in {Price64(cents)} :
         /\ data' = [kind |-> "flat", rows |-> [k \in 1..length |-> close]]
         /\ outcome' = [kind |-> "macd", cents |-> cents,
                        result |-> CalculateMACD64([k \in 1..length |-> close])]
  /\ event' = Quiet("macd")
  /\ UNCHANGED <<trading, lastRequest, manager>>
  /\ UNCHANGED <<instance, isPaused, pc, initialCapital, onProgress, i, locals,
                 pauseCalls, throwCount, start, processed, pausedSince>>

SpecFlat == InitLibrary /\ [][MacdFlat]_vars

(***************************************************************************)
(* Soundness of the number model                                           *)
(***************************************************************************)
\* every MACD enclosure met decides the sign the doubles compute
MacdDecided == lastAnalysis.present => MacdExact(lastAnalysis.macd)

\* on a window of at most 12 prices both averages are the same sum of doubles and
\* the MACD is exactly 0; on a longer one the enclosure decides the sign
LibraryMacdDecided ==
  Analyzed
    => \/ Len(rows) <= 12
       \/ MacdExact(outcome.result.indicators.macd.value)

(***************************************************************************)
(* The reference run: the same call never paused, its observer never        *)
(* throwing                                                                 *)
(***************************************************************************)
\* every row can be read
WellFormed(candles) == \A k \in 1..Len(candles) : candles[k].ok

\* the locals as lines 235-241 set them, with the position fields the run found
RunStart ==
  [position |-> start.position, entryPrice |-> start.entryPrice,
   positionSize |-> start.positionSize,
   trades |-> <<>>, equity |-> <<initialCapital>>, currentCapital |-> initialCapital,
   maxCapital |-> initialCapital, maxDrawdown |-> FromInt(0),
   winningTrades |-> 0, losingTrades |-> 0, lastAnalysis |-> NoAnalysis]

\* the same on an instance whose position fields are as the constructor leaves them
FreshStart ==
  [RunStart EXCEPT !.position = "none", !.entryPrice = 0,
                   !.positionSize = FromInt(0)]

\* the locals after the candles idx .. Len(candles) - 1, each processed once in its
\* turn (a row that cannot be read is skipped by the catch)
RECURSIVE Unpaused(_, _, _, _, _)
Unpaused(st, candles, idx, period, threshold) ==
  IF idx >= Len(candles) THEN st
  ELSE CHOOSE final \in
         {Unpaused(after, candles, idx + 1, period, threshold) :
            after \in {IF WindowThrows(candles, idx) THEN st
                       ELSE processCandle(st, candles, idx, period, threshold)}} : TRUE

(***************************************************************************)
(* Properties                                                              *)
(***************************************************************************)
\* C1: in the trade log of a run on a fresh instance buy and sell records strictly
\* alternate, starting with a buy, and a position is open exactly when the last
\* record is a buy; the returned log is that log.
TradeLogAlternates ==
  /\ \A k \in 1..Len(trades) : trades[k].type = (IF k % 2 = 1 THEN "buy" ELSE "sell")
  /\ (position = "long") <=> (Len(trades) % 2 = 1)
  /\ pc = "done" => outcome.trades = trades

\* C1 witness: a finished run that bought, sold and bought again
TradeLogAlternatesSeen == pc = "done" /\ Len(outcome.trades) >= 2

\* C2 as stated: a finished run on a well-formed sequence of n >= W candles returns
\* an equity curve of 1 + (n - W) entries, the first being the initial capital.
EquityLength ==
  (pc = "done" /\ WellFormed(rows) /\ Len(rows) >= minCandles)
    => /\ Len(outcome.equity) = 1 + (Len(rows) - minCandles)
       /\ outcome.equity[1] = initialCapital

\* C3 as stated: a finished run all of whose pauses were resumed returns the result
\* of the unpaused run on the same inputs.
PauseKeepsResult ==
  (pc = "done" /\ ~isPaused)
    => outcome = Summary(Unpaused(RunStart, rows, minCandles, rsiPeriod,
                                  signalThreshold), initialCapital)

\* C4 as stated: from the suspension of a paused run until the next resume() no
\* trade and no equity entry is appended, and capital, position and candle index
\* stay as they are.
PausedNothingChanges ==
  [][(pc = "sleeping" /\ isPaused /\ isPaused')
       => UNCHANGED <<i, trades, equity, currentCapital, position>>]_vars

\* C5 as stated: the result of a run (here one without observer) is the result the
\* same call gives on a fresh instance, whatever runs were made before on the same
\* object.
RunsShareNoState ==
  (pc = "done" /\ ~onProgress)
    => outcome = Summary(Unpaused(FreshStart, rows, minCandles, rsiPeriod,
                                  signalThreshold), initialCapital)

\* C6 as stated: a step whose error is caught appends no equity entry and no trade
\* and leaves capital and position unchanged.
FailedStepLeavesNoEntry ==
  [][event'.caught => UNCHANGED <<trades, equity, currentCapital, position>>]_vars

\* C6 amended: an error raised at candle i is caught and the run goes on with candle
\* i + 1 without settling; if it was raised before the trading logic (a row that
\* cannot be read, or the callback of the paused run) nothing is appended and capital
\* and position stay; if it was raised by the progress callback after the step, the
\* step's one equity entry is kept.
FailureIsolation ==
  [][event'.caught
       => /\ i' = i + 1
          /\ pc' = "loop"
          /\ outcome' = outcome
          /\ IF event'.emitted /\ event'.act = "step"
             THEN /\ Len(equity') = Len(equity) + 1
                  /\ Len(trades') \in {Len(trades), Len(trades) + 1}
             ELSE UNCHANGED <<trades, equity, currentCapital, position, entryPrice,
                              positionSize>>]_vars

\* C6 witness: the last candle's row could not be read, the error was caught and the
\* loop is past it
FailureIsolationSeen ==
  /\ event.caught /\ event.act = "step" /\ ~event.emitted
  /\ pc = "loop" /\ i = Len(rows)

\* C7 as stated: a call that fails before the loop fails with the invalid-input
\* error.
InvalidInputError == pc = "failed" => outcome.error = "Invalid historical data"

\* C8 as stated (its safety half): a run that was suspended and not resumed since
\* has not completed.
PausedNeverCompletes == pc = "done" => ~pausedSince

\* C9: at a processed step that finds the position FLAT, a long position is opened
\* exactly when totalSignal > signalThreshold; opening sets size = 0.95 * capital /
\* close and entryPrice = close, appends one buy record with that price and size and
\* no profit, and leaves the capital; otherwise nothing is traded.
EntryRule ==
  [][(pc = "loop" /\ event'.act = "step" /\ Len(equity') > Len(equity)
        /\ position = "none")
       => IF lastAnalysis'.totalSignal > signalThreshold
          THEN /\ position' = "long"
               /\ positionSize' = RDiv(RMul(currentCapital, Frac(95, 100)),
                                       FromInt(rows[i + 1].close))
               /\ entryPrice' = rows[i + 1].close
               /\ Len(trades') = Len(trades) + 1
               /\ SubSeq(trades', 1, Len(trades)) = trades
               /\ trades'[Len(trades')].type = "buy"
               /\ trades'[Len(trades')].price = rows[i + 1].close
               /\ trades'[Len(trades')].size = positionSize'
               /\ ~trades'[Len(trades')].hasProfit
               /\ currentCapital' = currentCapital
          ELSE /\ position' = "none"
               /\ UNCHANGED <<trades, currentCapital, entryPrice, positionSize>>]_vars

\* C9 witness: the step just taken opened a position
EntryRuleSeen ==
  /\ event.act = "step" /\ position = "long" /\ Len(trades) > 0
  /\ trades[Len(trades)].type = "buy"
  /\ lastAnalysis.present /\ trades[Len(trades)].indicators = lastAnalysis

\* C10: at a processed step that finds the position LONG, the position is closed
\* exactly when totalSignal < -signalThreshold; closing adds profit = (close -
\* entryPrice) * size to the capital, appends one sell record with that profit and
\* the position's size, and leaves the position FLAT; otherwise nothing is traded.
ExitRule ==
  [][(pc = "loop" /\ event'.act = "step" /\ Len(equity') > Len(equity)
        /\ position = "long")
       => IF lastAnalysis'.totalSignal < -signalThreshold
          THEN /\ position' = "none"
               /\ Len(trades') = Len(trades) + 1
               /\ SubSeq(trades', 1, Len(trades)) = trades
               /\ trades'[Len(trades')].type = "sell"
               /\ trades'[Len(trades')].price = rows[i + 1].close
               /\ trades'[Len(trades')].hasProfit
               /\ trades'[Len(trades')].profit
                    = RMul(FromInt(rows[i + 1].close - entryPrice), positionSize)
               /\ trades'[Len(trades')].size = positionSize
               /\ currentCapital' = RAdd(currentCapital, trades'[Len(trades')].profit)
          ELSE /\ position' = "long"
               /\ UNCHANGED <<trades, currentCapital, entryPrice, positionSize>>]_vars

\* C10 witness: the step just taken closed a position at a price other than the
\* entry price
ExitRuleSeen ==
  /\ event.act = "step" /\ position = "none" /\ Len(trades) > 1
  /\ trades[Len(trades)].type = "sell"
  /\ lastAnalysis.present /\ trades[Len(trades)].indicators = lastAnalysis
  /\ trades[Len(trades)].profit # FromInt(0)

\* the sum of the profit fields of the sell records of a trade log
RECURSIVE SumProfits(_)
SumProfits(log) ==
  IF log = <<>> THEN FromInt(0)
  ELSE IF log[Len(log)].type = "sell"
       THEN RAdd(SumProfits(SubSeq(log, 1, Len(log) - 1)), log[Len(log)].profit)
       ELSE SumProfits(SubSeq(log, 1, Len(log) - 1))

\* C11: after every step of a run the capital is the initial capital plus the
\* profits of the sell records appended so far and is the last equity entry; a step
\* whose equity entry differs from the one before appended a sell; the profit of the
\* result is final capital - initial capital = the sum of the sell profits = last
\* equity entry - first equity entry.
ProfitAccounting ==
  [][pc' \in {"loop", "sleeping", "yielded", "done"}
       => /\ currentCapital' = RAdd(initialCapital', SumProfits(trades'))
          /\ equity'[1] = initialCapital'
          /\ equity'[Len(equity')] = currentCapital'
          /\ (Len(equity') > Len(equity) /\ Len(equity) > 0
                /\ equity'[Len(equity')] # equity[Len(equity)])
               => /\ Len(trades') = Len(trades) + 1
                  /\ trades'[Len(trades')].type = "sell"
          /\ pc' = "done"
               => /\ outcome'.profit = RSub(currentCapital', initialCapital')
                  /\ outcome'.profit = SumProfits(outcome'.trades)
                  /\ outcome'.profit = RSub(outcome'.equity[Len(outcome'.equity)],
                                            outcome'.equity[1])]_vars

\* C11 witness: a finished run whose sell changed the capital
ProfitAccountingSeen ==
  /\ pc = "done" /\ outcome.profit # FromInt(0)
  /\ \E k \in 1..Len(outcome.trades) : outcome.trades[k].type = "sell"

\* C12: with initial capital 1000, a finished run whose only trades are a buy at
\* close 100 followed by a sell at close 110 records size 9.5 on both trades and
\* profit 95 on the sell, ends with capital 1095 (profit 95) and returns
\* winningTrades = 1, losingTrades = 0 and winRate = 100.
RoundTripScenario ==
  (/\ pc = "done" /\ initialCapital = FromInt(1000)
   /\ Len(outcome.trades) = 2
   /\ outcome.trades[1].type = "buy" /\ outcome.trades[1].price = 100
   /\ outcome.trades[2].type = "sell" /\ outcome.trades[2].price = 110)
    => /\ outcome.trades[1].size = <<19, 2>>
       /\ outcome.trades[2].size = <<19, 2>>
       /\ outcome.trades[2].profit = FromInt(95)
       /\ currentCapital = FromInt(1095)
       /\ outcome.profit = FromInt(95)
       /\ outcome.winningTrades = 1
       /\ outcome.losingTrades = 0
       /\ outcome.totalTrades = 1
       /\ outcome.winRate = FromInt(100)

\* C12 witness: a finished run with capital 1000 that bought at 100 and sold at 110
RoundTripScenarioSeen ==
  /\ pc = "done" /\ initialCapital = FromInt(1000)
  /\ Len(outcome.trades) = 2
  /\ outcome.trades[1].type = "buy" /\ outcome.trades[1].price = 100
  /\ outcome.trades[2].type = "sell" /\ outcome.trades[2].price = 110

\* C13: winningTrades is the number of sell records with profit > 0 and losingTrades
\* the number of the other sell records (profit 0 included); the result's totalTrades
\* is their sum, the number of sell records, and its winRate is winningTrades /
\* totalTrades * 100, or 0 when no position was closed.
TradeCounts ==
  pc \in {"loop", "sleeping", "yielded", "done"}
    => /\ winningTrades
            = Cardinality({k \in 1..Len(trades) :
                             trades[k].type = "sell"
                               /\ RLess(FromInt(0), trades[k].profit)})
       /\ losingTrades
            = Cardinality({k \in 1..Len(trades) :
                             trades[k].type = "sell"
                               /\ ~RLess(FromInt(0), trades[k].profit)})
       /\ pc = "done"
            => /\ outcome.winningTrades = winningTrades
               /\ outcome.losingTrades = losingTrades
               /\ outcome.totalTrades = winningTrades + losingTrades
               /\ outcome.totalTrades
                    = Cardinality({k \in 1..Len(outcome.trades) :
                                     outcome.trades[k].type = "sell"})
               /\ outcome.winRate
                    = (IF outcome.totalTrades = 0 THEN FromInt(0)
                       ELSE RMul(Frac(outcome.winningTrades, outcome.totalTrades),
                                 FromInt(100)))

\* C13 witness: a finished run whose one closed trade made a profit of exactly 0 and
\* was counted as losing
TradeCountsSeen ==
  /\ pc = "done" /\ outcome.totalTrades = 1 /\ outcome.losingTrades = 1
  /\ outcome.trades[2].type = "sell" /\ outcome.trades[2].profit = FromInt(0)
  /\ outcome.winRate = FromInt(0)

Processed ==
  /\ pc = "loop" /\ i < Len(rows) /\ ~isPaused
  /\ Len(equity') = Len(equity) + 1

\* C15: in a run with a progress callback, a processed step at index i emits a
\* snapshot exactly when i is a multiple of 50 or the trade log is non-empty after
\* the step; the snapshot has isPaused = false, currentCandle = i and the trades,
\* equity and capital the step left; no other step emits one.
ProgressThrottling ==
  [][Processed /\ onProgress
       => /\ event'.act = "step"
          /\ event'.emitted <=> (i % ReportEvery = 0 \/ Len(trades') > 0)
          /\ event'.emitted
               => /\ event'.snapshot.currentCandle = i
                  /\ event'.snapshot.isPaused = FALSE
                  /\ event'.snapshot.trades = trades'
                  /\ event'.snapshot.equity = equity'
                  /\ event'.snapshot.currentCapital = currentCapital'
                  /\ event'.snapshot.lastAnalysis = lastAnalysis'
          /\ ~event'.emitted => event'.snapshot = NoSnapshot]_vars

\* C15 witness: a step at an index that is no multiple of 50 reported its snapshot,
\* the log holding a trade
ProgressThrottlingSeen ==
  /\ event.act = "step" /\ event.emitted
  /\ event.snapshot.currentCandle % ReportEvery # 0
  /\ Len(event.snapshot.trades) > 0
  /\ event.snapshot.isPaused = FALSE

\* the run's latest event is a poll that handed the callback a paused snapshot of
\* the next candle and the locals as they are
PausedReport ==
  /\ event.act = "poll"
  /\ event.emitted
  /\ event.snapshot.isPaused
  /\ event.snapshot.lastAnalysis = NoAnalysis
  /\ event.snapshot.trades = trades
  /\ event.snapshot.equity = equity
  /\ event.snapshot.currentCapital = currentCapital

\* C16 as stated: a run with a progress callback that is suspended and from then on
\* never resumed reports a paused snapshot again and again, without end.
PausedKeepsReporting ==
  <>[](pausedSince /\ onProgress) => []<>PausedReport

\* what analyze() recommends on the window of the candle about to be processed
Recommended ==
  analyze(WindowPrices(rows, i), WindowVolumes(rows, i), rsiPeriod,
          signalThreshold).recommendation

\* C17: at every processed step the engine trades as analyze() recommends on the
\* step's window: a record is appended only on 'buy' (a buy record, from FLAT) or on
\* 'sell' (a sell record, from LONG), nothing is traded on 'neutral', a 'buy' while
\* FLAT always opens and a 'sell' while LONG always closes.
RecommendationExecuted ==
  [][Processed
       => /\ trades' # trades
               => /\ Len(trades') = Len(trades) + 1
                  /\ Recommended = (trades'[Len(trades')]).type
                  /\ position = IF Recommended = "buy" THEN "none" ELSE "long"
          /\ Recommended = "neutral" => trades' = trades /\ position' = position
          /\ position = "none" /\ Recommended = "buy"
               => position' = "long" /\ trades' # trades
          /\ position = "long" /\ Recommended = "sell"
               => position' = "none" /\ trades' # trades]_vars

\* C17 witness: a step left the position FLAT on a total signal equal to the
\* threshold, which analyze() recommends as 'neutral'
RecommendationExecutedSeen ==
  /\ event.act = "step" /\ ~event.caught
  /\ lastAnalysis.present
  /\ lastAnalysis.totalSignal = signalThreshold
  /\ position = "none"
  /\ trades = <<>>

\* the direction of an indicator as a number
Direction(indicator) ==
  IF indicator.signal = "buy" THEN 1 ELSE IF indicator.signal = "sell" THEN -1 ELSE 0

\* C18: analyze() returns totalSignal = 0.30 * d(rsi) + 0.25 * d(macd) + 0.25 *
\* d(bollinger) + 0.20 * d(volume), d being +1 for buy, 0 for neutral and -1 for
\* sell (in hundredths here); each indicator carries its fixed weight, the weights
\* sum to 1.0, and totalSignal lies in [-1, 1].
WeightedSum ==
  Analyzed
    => /\ outcome.result.indicators.rsi.weight = 30
       /\ outcome.result.indicators.macd.weight = 25
       /\ outcome.result.indicators.bollinger.weight = 25
       /\ outcome.result.indicators.volume.weight = 20
       /\ outcome.result.indicators.rsi.weight + outcome.result.indicators.macd.weight
            + outcome.result.indicators.bollinger.weight
            + outcome.result.indicators.volume.weight = 100
       /\ outcome.result.totalSignal
            = 30 * Direction(outcome.result.indicators.rsi)
              + 25 * Direction(outcome.result.indicators.macd)
              + 25 * Direction(outcome.result.indicators.bollinger)
              + 20 * Direction(outcome.result.indicators.volume)
       /\ outcome.result.totalSignal >= -100
       /\ outcome.result.totalSignal <= 100

\* C18 witness: a window on which indicators of both directions are summed
WeightedSumSeen ==
  /\ Analyzed
  /\ \E a, b \in {"rsi", "macd", "bollinger", "volume"} :
       /\ outcome.result.indicators[a].signal = "buy"
       /\ outcome.result.indicators[b].signal = "sell"

\* what may follow candle idx in another series: nothing, one candle, a null row and
\* a candle
LaterTails == {<<>>, <<<<12, 4>>>>, <<<<0, 0>>, <<6, 1>>>>}

\* the series that agree with `series` on the candles 0..idx
Alternatives(series, idx) ==
  {[k \in 1..(idx + 1 + Len(t)) |->
      IF k <= idx + 1 THEN series[k] ELSE Row(t[k - idx - 1], k - 1)] :
     t \in LaterTails}

\* the loop body at candle i on another series, from the same locals: whether the
\* window throws, and else the locals after the step and the snapshot reported
StepOn(series) ==
  IF WindowThrows(series, i)
  THEN [caught |-> TRUE, st |-> St, emitted |-> FALSE, snapshot |-> NoSnapshot]
  ELSE LET st == processCandle(St, series, i, rsiPeriod, signalThreshold)
       IN  [caught |-> FALSE, st |-> st, emitted |-> Reports(st),
            snapshot |-> IF Reports(st)
                         THEN [Snapshot(st, FALSE) EXCEPT !.totalCandles = Len(series)]
                         ELSE NoSnapshot]

\* a pass of the loop body at candle i
StepTaken == pc = "loop" /\ i < Len(rows) /\ ~isPaused /\ event'.act = "step"

\* the step taken left what `view` has, the snapshot's totalCandles apart
SameStep(view) ==
  /\ view.caught = (Len(equity') = Len(equity))
  /\ trades' = view.st.trades
  /\ equity' = view.st.equity
  /\ currentCapital' = view.st.currentCapital
  /\ position' = view.st.position
  /\ entryPrice' = view.st.entryPrice
  /\ positionSize' = view.st.positionSize
  /\ event'.emitted = view.emitted
  /\ [event'.snapshot EXCEPT !.totalCandles = 0]
       = [view.snapshot EXCEPT !.totalCandles = 0]

\* C19: the step at candle i gives the same trades, equity entry, position and
\* progress snapshot on every series that agrees with the run's on the candles
\* 0..i, whatever follows them; of the snapshot only totalCandles, the length of
\* the series, tells the series apart.
NoLookAhead ==
  [][StepTaken => \A alt \in Alternatives(rows, i) : SameStep(StepOn(alt))]_vars

\* C19 as stated: the progress snapshots are identical as well, whatever the later
\* candles are.
NoLookAheadSnapshots ==
  [][StepTaken
       => \A alt \in Alternatives(rows, i) : event'.snapshot = StepOn(alt).snapshot]_vars

\* C19 witness: a step traded and reported at a candle that is not the last of the
\* series
NoLookAheadSeen ==
  /\ event.act = "step" /\ event.emitted
  /\ trades # <<>>
  /\ event.snapshot.currentCandle + 1 < Len(rows)
  /\ trades[Len(trades)].timestamp = event.snapshot.currentCandle

\* none of the last `period` price changes of the window analyzed is a loss
NoRecentLoss ==
  \A k \in Max(2, Len(AnalyzedPrices) - rsiPeriod + 1)..Len(AnalyzedPrices) :
    AnalyzedPrices[k] >= AnalyzedPrices[k - 1]

RisingScenario ==
  Analyzed /\ rows = RisingSeries /\ rsiPeriod = 14
    => /\ RLess(FromInt(70), outcome.result.indicators.rsi.value)
       /\ outcome.result.indicators.rsi.signal = "sell"
       /\ outcome.result.indicators.macd.value.lo > 0
       /\ outcome.result.indicators.macd.signal = "buy"
       /\ outcome.result.indicators.bollinger.signal = "neutral"
       /\ outcome.result.indicators.volume.value = FromInt(1)
       /\ outcome.result.indicators.volume.signal = "neutral"
       /\ outcome.result.totalSignal = 30 * (-1) + 25 * 1
       /\ outcome.result.totalSignal = -5

\* C21 witness: the rising series was analyzed with period 14
RisingScenarioSeen ==
  /\ Analyzed /\ rows = RisingSeries /\ rsiPeriod = 14
  /\ outcome.result.indicators.rsi.value = FromInt(100)

\* the volumes of the window analyzed, the sum of the last 5 and the sum of the 15
\* before them
AnalyzedVolumes == WindowVolumes(rows, Len(rows) - 1)

RecentVolume == SumRange(AnalyzedVolumes, Len(rows) - 4, Len(rows))

HistoricalVolume == SumRange(AnalyzedVolumes, Len(rows) - 19, Len(rows) - 5)

\* C22: on a window of at least 20 volumes the volume indicator's value is (mean of
\* the last 5) / (mean of the 15 before them), its signal is buy exactly when the
\* ratio is above 1.5, sell exactly when it is below 0.5 and neutral otherwise (at
\* 1.5 and at 0.5 too), and its weight is 0.20. With 15 zero volumes before, the
\* division gives Infinity (buy) or, 0 / 0, NaN (neutral).
VolumeRatio ==
  Analyzed /\ Len(rows) >= 20
    => /\ outcome.result.indicators.volume.weight = 20
       /\ HistoricalVolume > 0
            => /\ outcome.result.indicators.volume.value
                    = Frac(RecentVolume * 15, 5 * HistoricalVolume)
               /\ outcome.result.indicators.volume.signal = "buy"
                    <=> 2 * 3 * RecentVolume > 3 * HistoricalVolume
               /\ outcome.result.indicators.volume.signal = "sell"
                    <=> 2 * 3 * RecentVolume < HistoricalVolume
       /\ HistoricalVolume = 0
            => /\ outcome.result.indicators.volume.value
                    = IF RecentVolume > 0 THEN Infinity ELSE NaN
               /\ outcome.result.indicators.volume.signal
                    = IF RecentVolume > 0 THEN "buy" ELSE "neutral"
       /\ outcome.result.indicators.volume.signal \in {"buy", "sell", "neutral"}

\* C22 witness: a ratio of exactly 1.5 was found neutral
VolumeRatioSeen ==
  /\ Analyzed /\ Len(rows) >= 20
  /\ outcome.result.indicators.volume.value = <<3, 2>>
  /\ outcome.result.indicators.volume.signal = "neutral"

\* the largest relative decline of curve[k..] below the running maximum, `peak`
\* being the maximum and `worst` the largest decline before k
RECURSIVE CurveDrawdown(_, _, _, _)
CurveDrawdown(curve, k, peak, worst) ==
  IF k > Len(curve) THEN worst
  ELSE CurveDrawdown(curve, k + 1, RMax(peak, curve[k]),
                     RMax(worst, RDiv(RSub(RMax(peak, curve[k]), curve[k]),
                                      RMax(peak, curve[k]))))

\* the capital after each sell record of the log, from `capital` before it
RECURSIVE CapitalAfterSells(_, _, _)
CapitalAfterSells(log, k, capital) ==
  IF k > Len(log) THEN <<>>
  ELSE IF log[k].type = "sell"
  THEN <<RAdd(capital, log[k].profit)>>
         \o CapitalAfterSells(log, k + 1, RAdd(capital, log[k].profit))
  ELSE CapitalAfterSells(log, k + 1, capital)

\* C23: the maxDrawdown of a finished run is 100 times the largest (peak - capital)
\* / peak over its closed trades, the peak being the running maximum of the capital
\* from the initial capital on; it is also 100 times the largest decline of the
\* returned equity curve below its running maximum, and 0 when no entry is below
\* an earlier one.
MaxDrawdownReported ==
  pc = "done"
    => /\ outcome.maxDrawdown
            = RMul(CurveDrawdown(CapitalAfterSells(outcome.trades, 1, initialCapital),
                                 1, initialCapital, FromInt(0)),
                   FromInt(100))
       /\ outcome.maxDrawdown
            = RMul(CurveDrawdown(outcome.equity, 1, initialCapital, FromInt(0)),
                   FromInt(100))
       /\ (\A j, k \in 1..Len(outcome.equity) :
             j < k => ~RLess(outcome.equity[k], outcome.equity[j]))
            => outcome.maxDrawdown = FromInt(0)

\* C23 witness: a run won a trade and then lost one, and reports the decline from
\* the peak between them
MaxDrawdownReportedSeen ==
  /\ pc = "done"
  /\ outcome.winningTrades = 1 /\ outcome.losingTrades = 1
  /\ RLess(initialCapital, outcome.equity[Len(outcome.equity)])
  /\ RLess(FromInt(0), outcome.maxDrawdown)

\* all per-step returns of the curve are equal (to the 0 of the first entry)
FlatReturns(curve) ==
  \A k \in 1..Len(curve) : Returns(curve)[k] = FromInt(0)

\* C24: a finished run whose per-step returns are all equal reports sharpeRatio = 0;
\* a run that closed no position has such a curve (every entry is the initial
\* capital) and also reports profit 0, maxDrawdown 0, winRate 0 and totalTrades 0;
\* a series not longer than the warm-up gives the curve of the initial capital alone.
ZeroVarianceSentinel ==
  pc = "done"
    => /\ FlatReturns(outcome.equity) => outcome.sharpeRatio.isZero
       /\ ~FlatReturns(outcome.equity) => ~outcome.sharpeRatio.isZero
       /\ outcome.winningTrades + outcome.losingTrades = 0
            => /\ FlatReturns(outcome.equity)
               /\ outcome.sharpeRatio.isZero
               /\ outcome.totalTrades = 0
               /\ outcome.profit = FromInt(0)
               /\ outcome.maxDrawdown = FromInt(0)
               /\ outcome.winRate = FromInt(0)
       /\ Len(rows) <= minCandles
            => /\ outcome.equity = <<initialCapital>>
               /\ outcome.totalTrades = 0
               /\ outcome.sharpeRatio.isZero

\* C24 witness: a run processed candles, opened a position it never closed, and
\* reports the sentinel
ZeroVarianceSentinelSeen ==
  /\ pc = "done"
  /\ position = "long"
  /\ outcome.totalTrades = 0
  /\ Len(outcome.equity) > 1
  /\ outcome.sharpeRatio.isZero

\* the call failed because the exchange rejected the stop-loss or the take-profit leg
LegRejected ==
  /\ Returned
  /\ ~reply.success
  /\ reply.error \in
       {"Failed to place stop loss order. Main order has been cancelled.",
        "Failed to place take profit order. Main order has been cancelled."}

\* C25 as stated: when the call fails because a leg was rejected, a cancel request
\* was sent for every order the call had placed: for the main order, and for the
\* stop-loss order when the take-profit was the one rejected.
EveryPlacedLegCancelled ==
  LegRejected
    => \A leg \in {"main", "stopLoss", "takeProfit"} :
         Placed(leg) => WasSent("cancelOrder", leg)

\* every leg the order asks for was accepted by the exchange
EveryRequestedLegPlaced ==
  /\ Placed("main")
  /\ order.stopLoss # "none" => Placed("stopLoss")
  /\ order.takeProfit # "none" => Placed("takeProfit")

\* C26: placeOrder always resolves to a response; the response says success only
\* when the main order and every requested stop-loss and take-profit leg were
\* accepted, and every other response says failure with a non-empty error string.
NoSilentPartialPlacement ==
  Returned
    => /\ reply.kind = "response"
       /\ reply.success => EveryRequestedLegPlaced
       /\ ~reply.success => reply.error # ""

\* a call fails after the exchange accepted the main order and rejected a leg
NoSilentPartialPlacementSeen ==
  /\ Returned
  /\ ~reply.success
  /\ Placed("main")
  /\ \E k \in 1..Len(requests) :
       /\ requests[k].request = "placeOrder"
       /\ requests[k].leg \in {"stopLoss", "takeProfit"}
       /\ requests[k].result = "rejected"

\* the summary derived a second time, from the log and the curve of a result
Rederived(result) ==
  Summary([St EXCEPT !.trades = result.trades, !.equity = result.equity],
          initialCapital)

PausedFlagAtEmission ==
  [][event'.emitted => event'.snapshot.isPaused = isPaused]_vars

\* C29 as stated: when the progress callback throws, no candle is skipped: the
\* index moves on only past a candle that was processed (its equity entry was
\* appended), also when the callback throws while the run is paused.
ObserverErrorSkipsNothing ==
  [][event'.emitted /\ event'.caught
       => \/ i' = i /\ equity' = equity
          \/ i' = i + 1 /\ Len(equity') = Len(equity) + 1]_vars

IsPrefix(s, t) == Len(s) <= Len(t) /\ SubSeq(t, 1, Len(s)) = s

\* C31: within a run every step leaves the trade log and the equity curve it found
\* as an initial part of the ones it leaves; a snapshot and the result carry the log
\* and the curve of their moment, and the timestamps of the log increase.
AppendOnly ==
  [][event'.act # "backtest"
       => /\ IsPrefix(trades, trades')
          /\ IsPrefix(equity, equity')
          /\ event'.emitted
               => /\ event'.snapshot.trades = trades'
                  /\ event'.snapshot.equity = equity'
          /\ pc' = "done"
               => /\ outcome'.trades = trades'
                  /\ outcome'.equity = equity'
          /\ \A k \in 2..Len(trades') :
               trades'[k - 1].timestamp < trades'[k].timestamp]_vars

\* a finished run whose log grew to three records and whose capital moved
AppendOnlySeen ==
  /\ pc = "done"
  /\ Len(outcome.trades) >= 3
  /\ Len(outcome.equity) >= 4
  /\ outcome.equity[Len(outcome.equity)] # outcome.equity[1]

\* a run is under way or finished, on a positive capital and positive closes
PositiveInputs ==
  /\ pc \in {"loop", "sleeping", "yielded", "done"}
  /\ RLess(FromInt(0), initialCapital)
  /\ \A k \in 1..Len(rows) : rows[k].ok => rows[k].close > 0

\* C32: on a fresh instance, with a positive initial capital and positive closes,
\* the capital and every equity entry are > 0, every sale loses less than the 95%
\* of the capital its purchase put in, and the reported maxDrawdown is in [0, 100).
CapitalPositive ==
  PositiveInputs
    => /\ RLess(FromInt(0), currentCapital)
       /\ \A k \in 1..Len(equity) : RLess(FromInt(0), equity[k])
       /\ \A k \in 2..Len(trades) :
            trades[k].type = "sell"
              => /\ RLess(RNeg(RMul(trades[k - 1].size, FromInt(trades[k - 1].price))),
                          trades[k].profit)
       /\ pc = "done"
            => /\ ~RLess(outcome.maxDrawdown, FromInt(0))
               /\ RLess(outcome.maxDrawdown, FromInt(100))

\* a finished run that sold at a loss and reports a drawdown
CapitalPositiveSeen ==
  /\ PositiveInputs
  /\ pc = "done"
  /\ RLess(currentCapital, initialCapital)
  /\ RLess(FromInt(0), outcome.maxDrawdown)
  /\ outcome.losingTrades >= 1

\* a window as a run passes it to analyze(): at least 27 readable candles with
\* positive closes and volumes that are not negative
EngineWindow ==
  /\ Analyzed
  /\ Len(rows) >= MacdPeriod + 1
  /\ \A k \in 1..Len(rows) :
       rows[k].ok /\ rows[k].close > 0 /\ rows[k].volume >= 0

\* C33 as stated: on such a window no division has a zero divisor that is not
\* guarded: the mean of the 15 historical volumes, the divisor of the volume ratio,
\* is not zero, and the values of the RSI and of the volume indicator are numbers.
NoZeroDivisor ==
  EngineWindow
    => /\ HistoricalVolume # 0
       /\ IsFinite(outcome.result.indicators.rsi.value)
       /\ IsFinite(outcome.result.indicators.volume.value)

\* before the k-th request, `request` for `leg` was sent and the exchange accepted it
AcceptedBefore(k, request, leg) ==
  \E j \in 1..(k - 1) :
    /\ requests[j].request = request
    /\ requests[j].leg = leg
    /\ requests[j].result = "ok"

\* C35: the main order is sent only after the API keys, the order, the symbol, the
\* price and the sides of stop loss and take profit passed their checks; the stop
\* loss only after the main order was accepted; the take profit only after the main
\* order and any requested stop loss were accepted.
ProtocolOrdering ==
  \A k \in 1..Len(requests) :
    requests[k].request = "placeOrder"
      => /\ AcceptedBefore(k, "getAccountInfo", "none")
         /\ AcceptedBefore(k, "getExchangeInfo", "none")
         /\ AcceptedBefore(k, "getSymbolPriceTicker", "none")
         /\ order.wellFormed
         /\ ~(order.mode = "futures" /\ order.leverage = "out")
         /\ order.stopLoss # "inconsistent"
         /\ order.takeProfit # "inconsistent"
         /\ requests[k].leg = "stopLoss" => AcceptedBefore(k, "placeOrder", "main")
         /\ requests[k].leg = "takeProfit"
              => /\ AcceptedBefore(k, "placeOrder", "main")
                 /\ order.stopLoss # "none"
                      => AcceptedBefore(k, "placeOrder", "stopLoss")

\* a futures order went through all three legs
ProtocolOrderingSeen ==
  /\ Returned
  /\ reply.success
  /\ order.mode = "futures"
  /\ Placed("stopLoss")
  /\ Placed("takeProfit")

\* the requests that change the account or place an order
StateChanging == {"setPositionMode", "setLeverage", "setMarginType", "placeOrder"}

\* the call failed on the order's parameters, the symbol, the price or the sides of
\* stop loss and take profit, before any main order was sent
FailedBeforeMainOrder ==
  /\ Returned
  /\ ~reply.success
  /\ ~WasSent("placeOrder", "main")
  /\ reply.error \in
       {"Invalid order amount",
        "Leverage must be between 1x and 125x",
        "Trading pair is not available",
        "Unable to get current market price. Please try again.",
        "Invalid market price received",
        "Stop loss price must be below current price for buy orders and above for sell orders",
        "Take profit price must be above current price for buy orders and below for sell orders"}

\* C36 as stated: a call that fails before the main order is sent has sent no
\* request that changes leverage, margin type or position mode, and no order.
FailedCallChangedNothing ==
  FailedBeforeMainOrder
    => \A k \in 1..Len(requests) : requests[k].request \notin StateChanging

\* C37 as stated: when the returned error says that the main order has been
\* cancelled, the exchange accepted a cancel request for the main order.
ReportedCancellationHappened ==
  LegRejected
    => \E k \in 1..Len(requests) :
         /\ requests[k].request = "cancelOrder"
         /\ requests[k].leg = "main"
         /\ requests[k].result = "ok"

\* C38: the query string of a signed request has the keys the caller gave a value
\* that is neither null nor undefined, and timestamp and recvWindow, in alphabetical
\* order, each with its encoded value; the full query string is that string with the
\* signature of exactly that string under the API secret appended as last parameter.
\* An unsigned request has only the given keys: no timestamp, recvWindow, signature.
RequestSigning ==
  lastRequest.kind = "request"
    => /\ \A k \in 1..(Len(lastRequest.queryString) - 1) :
            Rank(lastRequest.queryString[k][1]) < Rank(lastRequest.queryString[k + 1][1])
       /\ \A k \in 1..Len(lastRequest.queryString) :
            lastRequest.queryString[k][2]
              = (IF lastRequest.queryString[k][1] = "timestamp"
                 THEN ToString(lastRequest.timestamp)
                 ELSE IF lastRequest.queryString[k][1] = "recvWindow"
                 THEN ToString(RecvWindow)
                 ELSE IF lastRequest.params[lastRequest.queryString[k][1]] = "a&b"
                 THEN "a%26b"
                 ELSE lastRequest.params[lastRequest.queryString[k][1]])
       /\ lastRequest.signed
            => /\ KeysOf(lastRequest.queryString)
                    = GivenKeys(lastRequest.params) \cup {"timestamp", "recvWindow"}
               /\ lastRequest.fullQueryString
                    = Append(lastRequest.queryString,
                             <<"signature",
                               ToString([hmac |-> "sha256", key |-> ApiSecret,
                                         message |-> lastRequest.queryString])>>)
       /\ ~lastRequest.signed
            => /\ KeysOf(lastRequest.fullQueryString) = GivenKeys(lastRequest.params)
               /\ lastRequest.fullQueryString = lastRequest.queryString

\* a signed request whose caller wrote symbol before quantity and left type null
RequestSigningSeen ==
  /\ lastRequest.kind = "request"
  /\ lastRequest.signed
  /\ lastRequest.params["symbol"] = "a&b"
  /\ lastRequest.params["quantity"] = "BTCUSDT"
  /\ lastRequest.params["type"] = "null"
  /\ Len(lastRequest.fullQueryString) = 5

\* the timestamps of a dataset increase strictly
Increasing(dataset) ==
  \A k \in 1..(Len(dataset) - 1) : dataset[k].timestamp < dataset[k + 1].timestamp

\* every batch after the first starts at the close time of the last candle of the
\* batch before it, plus 1, and no batch follows an empty one or starts at the end
Continued ==
  \A k \in 1..Len(batches) :
    /\ batches[k].startTime < endTime
    /\ k > 1 => /\ batches[k - 1].data # <<>>
                /\ batches[k].startTime = NextStart(batches[k - 1].data)

\* C39: the batches continue one another at close time + 1 and stop at the end time
\* or at an empty batch; the data collected, and delivered, is the concatenation of
\* the batches in order, with strictly increasing timestamps; and a fetch that was
\* started ends.
PaginatedFetch ==
  /\ [](/\ Continued
        /\ job \in {"fetching", "fetched"} => allData = Concatenated(batches, 1)
        /\ Increasing(allData)
        /\ job = "fetched"
             => /\ delivered = <<allData>>
                /\ historicalData = allData
                /\ \/ currentStart >= endTime
                   \/ batches[Len(batches)].data = <<>>
        /\ job = "failed" => delivered = <<>>)
  /\ (job = "fetching") ~> (job # "fetching")

\* a fetch delivered the candles of three batches, the last one empty
PaginatedFetchSeen ==
  /\ job = "fetched"
  /\ Len(batches) = 3
  /\ batches[3].data = <<>>
  /\ Len(delivered[1]) >= 3

\* a file whose parsed data is a non-empty array of rows that each have the six
\* fields, a parseable timestamp and parseable numbers
Importable(file) ==
  LET parsed == ParsedData(file) IN
    /\ parsed.kind = "array"
    /\ parsed.items # <<>>
    /\ \A k \in 1..Len(parsed.items) :
         LET row == parsed.items[k] IN
           /\ row.object
           /\ \A field \in DOMAIN JsonRow : row.values[field] # Absent
           /\ DateTime(row.values.timestamp) # NaN
           /\ \A field \in DOMAIN JsonRow \ {"timestamp"} :
                ParseFloat(row.values[field]) # NaN

\* C40: an import delivers candles to onDataFetched only if the file is well formed;
\* for any other file nothing is delivered and the dataset held stays as it was.
ImportAcceptance ==
  [][/\ delivered' # delivered => Importable(upload')
     /\ ~Importable(upload') => /\ delivered' = delivered
                                /\ historicalData' = historicalData]_vars

\* after an accepted import, a file with a bad second row was handled, and the
\* dataset of the first import is still the one held
ImportAcceptanceSeen ==
  /\ job = "rejected"
  /\ ~Importable(upload)
  /\ upload.name = "data.json"
  /\ upload.content.format = "json"
  /\ upload.content.value.kind = "array"
  /\ Len(upload.content.value.items) = 2
  /\ upload.content.value.items[1] = Object(JsonRow)
  /\ Len(delivered) = 1
  /\ historicalData = delivered[1]

\* C34: in a flat market (one constant close over at least 27 candles) the MACD value
\* is exactly 0 and its signal neutral, so that only the RSI contributes to
\* totalSignal.
FlatMarketMacdNeutral ==
  outcome.kind = "macd"
    => /\ Signum(outcome.result.value) = 0
       /\ outcome.result.signal = "neutral"

=============================================================================
